---- MODULE Spec2Model ----
(***************************************************************************)
(* WP Engine MCP server: the tool-call handler of src/index.ts, the zod    *)
(* schemas and validateInput of src/utils/validation.ts and the REST       *)
(* client of src/services/wpengine-api.ts.                                 *)
(*                                                                         *)
(* JSON values are tagged records [t, v].  A string is a TLA+ string; its  *)
(* characters, which patterns and lengths are computed from, are given by  *)
(* Chars for the strings the model's inputs use.  A number is kept in      *)
(* tenths (25 is 250, 0.5 is 5), so that z.number().int() has something to *)
(* reject.                                                                 *)
(***************************************************************************)
EXTENDS Integers, Sequences, FiniteSets, TLC

\* ------------------------------------------------------------------ bounds

\* Tool invocations that may be in flight at once.
MaxInv == 2
\* The sends the demo page is followed through.
MaxSends == 2

\* ------------------------------------------------------------- JSON values

JUndef == [t |-> "undefined"]
JNull == [t |-> "null"]
JStr(s) == [t |-> "string", v |-> s]
JNum(tenths) == [t |-> "number", v |-> tenths]
JBool(b) == [t |-> "boolean", v |-> b]
JObj(f) == [t |-> "object", v |-> f]
JArr(elems) == [t |-> "array", v |-> elems]

\* The empty mapping, and the mapping with one key.
NoFields == [k \in {} |-> JUndef]
Field(k, val) == [x \in {k} |-> val]

\* o[k] of JavaScript on an object's fields: undefined when the key is absent.
Get(f, k) == IF k \in DOMAIN f THEN f[k] ELSE JUndef

\* f without the key k (the rest pattern `{ site_id, ...updateData }`).
Without(f, k) == [x \in (DOMAIN f) \ {k} |-> f[x]]

RECURSIVE Rep(_, _)
Rep(c, n) == IF n = 0 THEN <<>> ELSE <<c>> \o Rep(c, n - 1)

\* The characters of the strings that occur as inputs.
Chars(s) ==
    CASE s = "" -> <<>>
      [] s = "11111111-1111-1111-1111-111111111111" ->
           Rep("1", 8) \o <<"-">> \o Rep("1", 4) \o <<"-">> \o Rep("1", 4)
           \o <<"-">> \o Rep("1", 4) \o <<"-">> \o Rep("1", 12)
      [] s = "not-a-uuid" -> <<"n", "o", "t", "-", "a", "-", "u", "u", "i", "d">>
      [] s = "abc123" -> <<"a", "b", "c", "1", "2", "3">>
      [] s = "my-blog" -> <<"m", "y", "-", "b", "l", "o", "g">>
      [] s = "ab" -> <<"a", "b">>
      [] s = "8.1" -> <<"8", ".", "1">>
      [] s = "s1" -> <<"s", "1">>
      [] s = "taken" -> <<"t", "a", "k", "e", "n">>
      [] s = "30000" -> <<"3", "0", "0", "0", "0">>
      [] s = "5000" -> <<"5", "0", "0", "0">>
      [] s = "soon" -> <<"s", "o", "o", "n">>
      [] s = "  " ->
           <<" ", " ">>
      [] s = "installation" ->
           <<"i", "n", "s", "t", "a", "l", "l", "a", "t", "i", "o", "n">>
      [] s = "type" ->
           <<"t", "y", "p", "e">>
      [] s = "list sites" ->
           <<"l", "i", "s", "t", " ", "s", "i", "t", "e", "s">>
      [] s = "list accounts" ->
           <<"l", "i", "s", "t", " ", "a", "c", "c", "o", "u", "n", "t", "s">>
      [] s = "list installs" ->
           <<"l", "i", "s", "t", " ", "i", "n", "s", "t", "a", "l", "l", "s">>
      [] s = "list ssh keys" ->
           <<"l", "i", "s", "t", " ", "s", "s", "h", " ", "k", "e", "y", "s">>
      [] s = "api status" ->
           <<"a", "p", "i", " ", "s", "t", "a", "t", "u", "s">>
      [] s = "current user" ->
           <<"c", "u", "r", "r", "e", "n", "t", " ", "u", "s", "e", "r">>
      [] s = "help" ->
           <<"h", "e", "l", "p">>
      [] s = "get site info abc123" ->
           <<"g", "e", "t", " ", "s", "i", "t", "e", " ", "i", "n", "f", "o", " ",
             "a", "b", "c", "1", "2", "3">>
      [] s = "get account info abc123" ->
           <<"g", "e", "t", " ", "a", "c", "c", "o", "u", "n", "t", " ", "i", "n",
             "f", "o", " ", "a", "b", "c", "1", "2", "3">>
      [] s = "get install info abc123" ->
           <<"g", "e", "t", " ", "i", "n", "s", "t", "a", "l", "l", " ", "i", "n",
             "f", "o", " ", "a", "b", "c", "1", "2", "3">>
      [] s = "get site info 11111111-1111-1111-1111-111111111111" ->
           <<"g", "e", "t", " ", "s", "i", "t", "e", " ", "i", "n", "f", "o", " ",
             "1", "1", "1", "1", "1", "1", "1", "1", "-", "1", "1", "1", "1", "-",
             "1", "1", "1", "1", "-", "1", "1", "1", "1", "-", "1", "1", "1", "1",
             "1", "1", "1", "1", "1", "1", "1", "1">>
      [] s = "get account info 11111111-1111-1111-1111-111111111111" ->
           <<"g", "e", "t", " ", "a", "c", "c", "o", "u", "n", "t", " ", "i", "n",
             "f", "o", " ", "1", "1", "1", "1", "1", "1", "1", "1", "-", "1", "1",
             "1", "1", "-", "1", "1", "1", "1", "-", "1", "1", "1", "1", "-", "1",
             "1", "1", "1", "1", "1", "1", "1", "1", "1", "1", "1">>
      [] s = "get install info 11111111-1111-1111-1111-111111111111" ->
           <<"g", "e", "t", " ", "i", "n", "s", "t", "a", "l", "l", " ", "i", "n",
             "f", "o", " ", "1", "1", "1", "1", "1", "1", "1", "1", "-", "1", "1",
             "1", "1", "-", "1", "1", "1", "1", "-", "1", "1", "1", "1", "-", "1",
             "1", "1", "1", "1", "1", "1", "1", "1", "1", "1", "1">>
      [] s = "purge cache for installation abc123" ->
           <<"p", "u", "r", "g", "e", " ", "c", "a", "c", "h", "e", " ", "f", "o",
             "r", " ", "i", "n", "s", "t", "a", "l", "l", "a", "t", "i", "o", "n",
             " ", "a", "b", "c", "1", "2", "3">>
      [] s = "purge all cache for installation abc123" ->
           <<"p", "u", "r", "g", "e", " ", "a", "l", "l", " ", "c", "a", "c", "h",
             "e", " ", "f", "o", "r", " ", "i", "n", "s", "t", "a", "l", "l", "a",
             "t", "i", "o", "n", " ", "a", "b", "c", "1", "2", "3">>
      [] s = "purge object cache for installation abc123" ->
           <<"p", "u", "r", "g", "e", " ", "o", "b", "j", "e", "c", "t", " ", "c",
             "a", "c", "h", "e", " ", "f", "o", "r", " ", "i", "n", "s", "t", "a",
             "l", "l", "a", "t", "i", "o", "n", " ", "a", "b", "c", "1", "2", "3">>
      [] s = "purge page cache for installation abc123" ->
           <<"p", "u", "r", "g", "e", " ", "p", "a", "g", "e", " ", "c", "a", "c",
             "h", "e", " ", "f", "o", "r", " ", "i", "n", "s", "t", "a", "l", "l",
             "a", "t", "i", "o", "n", " ", "a", "b", "c", "1", "2", "3">>
      [] s = "purge cdn cache for installation abc123" ->
           <<"p", "u", "r", "g", "e", " ", "c", "d", "n", " ", "c", "a", "c", "h",
             "e", " ", "f", "o", "r", " ", "i", "n", "s", "t", "a", "l", "l", "a",
             "t", "i", "o", "n", " ", "a", "b", "c", "1", "2", "3">>
      [] s = "purge object cache for installation install-456" ->
           <<"p", "u", "r", "g", "e", " ", "o", "b", "j", "e", "c", "t", " ", "c",
             "a", "c", "h", "e", " ", "f", "o", "r", " ", "i", "n", "s", "t", "a",
             "l", "l", "a", "t", "i", "o", "n", " ", "i", "n", "s", "t", "a", "l",
             "l", "-", "4", "5", "6">>
      [] s = "create backup for installation abc123" ->
           <<"c", "r", "e", "a", "t", "e", " ", "b", "a", "c", "k", "u", "p", " ",
             "f", "o", "r", " ", "i", "n", "s", "t", "a", "l", "l", "a", "t", "i",
             "o", "n", " ", "a", "b", "c", "1", "2", "3">>
      [] s = "list domains for installation abc123" ->
           <<"l", "i", "s", "t", " ", "d", "o", "m", "a", "i", "n", "s", " ", "f",
             "o", "r", " ", "i", "n", "s", "t", "a", "l", "l", "a", "t", "i", "o",
             "n", " ", "a", "b", "c", "1", "2", "3">>
      [] s = "list users for account abc123" ->
           <<"l", "i", "s", "t", " ", "u", "s", "e", "r", "s", " ", "f", "o", "r",
             " ", "a", "c", "c", "o", "u", "n", "t", " ", "a", "b", "c", "1", "2",
             "3">>
      [] s = "create site named my-blog" ->
           <<"c", "r", "e", "a", "t", "e", " ", "s", "i", "t", "e", " ", "n", "a",
             "m", "e", "d", " ", "m", "y", "-", "b", "l", "o", "g">>
      [] s = "update site abc123" ->
           <<"u", "p", "d", "a", "t", "e", " ", "s", "i", "t", "e", " ", "a", "b",
             "c", "1", "2", "3">>
      [] s = "delete site abc123" ->
           <<"d", "e", "l", "e", "t", "e", " ", "s", "i", "t", "e", " ", "a", "b",
             "c", "1", "2", "3">>
      [] s = "get info for site abc123" ->
           <<"g", "e", "t", " ", "i", "n", "f", "o", " ", "f", "o", "r", " ", "s",
             "i", "t", "e", " ", "a", "b", "c", "1", "2", "3">>
      [] s = "get details for account abc123" ->
           <<"g", "e", "t", " ", "d", "e", "t", "a", "i", "l", "s", " ", "f", "o",
             "r", " ", "a", "c", "c", "o", "u", "n", "t", " ", "a", "b", "c", "1",
             "2", "3">>
      [] s = "get info for install abc123" ->
           <<"g", "e", "t", " ", "i", "n", "f", "o", " ", "f", "o", "r", " ", "i",
             "n", "s", "t", "a", "l", "l", " ", "a", "b", "c", "1", "2", "3">>
      [] s = "info for site id abc123" ->
           <<"i", "n", "f", "o", " ", "f", "o", "r", " ", "s", "i", "t", "e", " ",
             "i", "d", " ", "a", "b", "c", "1", "2", "3">>
      [] s = "show site abc123 details" ->
           <<"s", "h", "o", "w", " ", "s", "i", "t", "e", " ", "a", "b", "c", "1",
             "2", "3", " ", "d", "e", "t", "a", "i", "l", "s">>
      [] s = "purge cache object for installation abc123" ->
           <<"p", "u", "r", "g", "e", " ", "c", "a", "c", "h", "e", " ", "o", "b",
             "j", "e", "c", "t", " ", "f", "o", "r", " ", "i", "n", "s", "t", "a",
             "l", "l", "a", "t", "i", "o", "n", " ", "a", "b", "c", "1", "2", "3">>
      [] s = "Purge cache CDN for install ABC123" ->
           <<"P", "u", "r", "g", "e", " ", "c", "a", "c", "h", "e", " ", "C", "D",
             "N", " ", "f", "o", "r", " ", "i", "n", "s", "t", "a", "l", "l", " ",
             "A", "B", "C", "1", "2", "3">>
      [] s = "purge cache page for installation id abc123" ->
           <<"p", "u", "r", "g", "e", " ", "c", "a", "c", "h", "e", " ", "p", "a",
             "g", "e", " ", "f", "o", "r", " ", "i", "n", "s", "t", "a", "l", "l",
             "a", "t", "i", "o", "n", " ", "i", "d", " ", "a", "b", "c", "1", "2",
             "3">>
      [] s = "list sites info" ->
           <<"l", "i", "s", "t", " ", "s", "i", "t", "e", "s", " ", "i", "n", "f", "o">>
      [] s = "list accounts for site abc123 info" ->
           <<"l", "i", "s", "t", " ", "a", "c", "c", "o", "u", "n", "t", "s", " ",
             "f", "o", "r", " ", "s", "i", "t", "e", " ", "a", "b", "c", "1", "2",
             "3", " ", "i", "n", "f", "o">>
      [] s = "get site info" ->
           <<"g", "e", "t", " ", "s", "i", "t", "e", " ", "i", "n", "f", "o">>
      [] s = "list installs site info" ->
           <<"l", "i", "s", "t", " ", "i", "n", "s", "t", "a", "l", "l", "s", " ",
             "s", "i", "t", "e", " ", "i", "n", "f", "o">>
      [] s = "create site info" ->
           <<"c", "r", "e", "a", "t", "e", " ", "s", "i", "t", "e", " ", "i", "n", "f", "o">>
      [] s = "site details" ->
           <<"s", "i", "t", "e", " ", "d", "e", "t", "a", "i", "l", "s">>
      [] s = "get site details abc" ->
           <<"g", "e", "t", " ", "s", "i", "t", "e", " ", "d", "e", "t", "a", "i",
             "l", "s", " ", "a", "b", "c">>
      [] s = "purge cache" ->
           <<"p", "u", "r", "g", "e", " ", "c", "a", "c", "h", "e">>
      [] s = "purge cache all" ->
           <<"p", "u", "r", "g", "e", " ", "c", "a", "c", "h", "e", " ", "a", "l", "l">>
      [] s = "delete site" ->
           <<"d", "e", "l", "e", "t", "e", " ", "s", "i", "t", "e">>
      [] s = "create site named" ->
           <<"c", "r", "e", "a", "t", "e", " ", "s", "i", "t", "e", " ", "n", "a",
             "m", "e", "d">>
      [] s = "list users" ->
           <<"l", "i", "s", "t", " ", "u", "s", "e", "r", "s">>
      [] s = "list domains" ->
           <<"l", "i", "s", "t", " ", "d", "o", "m", "a", "i", "n", "s">>
      [] s = "hello" ->
           <<"h", "e", "l", "l", "o">>
      [] s = "site info for site 12" ->
           <<"s", "i", "t", "e", " ", "i", "n", "f", "o", " ", "f", "o", "r", " ",
             "s", "i", "t", "e", " ", "1", "2">>
      [] s = "update site info abc123" ->
           <<"u", "p", "d", "a", "t", "e", " ", "s", "i", "t", "e", " ", "i", "n",
             "f", "o", " ", "a", "b", "c", "1", "2", "3">>
      [] s = "list websites" ->
           <<"l", "i", "s", "t", " ", "w", "e", "b", "s", "i", "t", "e", "s">>
      [] s = "site" ->
           <<"s", "i", "t", "e">>
      [] s = "id" ->
           <<"i", "d">>
      [] s = "account" ->
           <<"a", "c", "c", "o", "u", "n", "t">>
      [] s = "install" ->
           <<"i", "n", "s", "t", "a", "l", "l">>
      [] s = "ation" ->
           <<"a", "t", "i", "o", "n">>
      [] s = "create" ->
           <<"c", "r", "e", "a", "t", "e">>
      [] s = "named" ->
           <<"n", "a", "m", "e", "d">>
      [] s = "cache" ->
           <<"c", "a", "c", "h", "e">>
      [] s = "list" ->
           <<"l", "i", "s", "t">>
      [] s = "sites" ->
           <<"s", "i", "t", "e", "s">>
      [] s = "websites" ->
           <<"w", "e", "b", "s", "i", "t", "e", "s">>
      [] s = "info" ->
           <<"i", "n", "f", "o">>
      [] s = "details" ->
           <<"d", "e", "t", "a", "i", "l", "s">>
      [] s = "accounts" ->
           <<"a", "c", "c", "o", "u", "n", "t", "s">>
      [] s = "installs" ->
           <<"i", "n", "s", "t", "a", "l", "l", "s">>
      [] s = "installations" ->
           <<"i", "n", "s", "t", "a", "l", "l", "a", "t", "i", "o", "n", "s">>
      [] s = "domains" ->
           <<"d", "o", "m", "a", "i", "n", "s">>
      [] s = "backup" ->
           <<"b", "a", "c", "k", "u", "p">>
      [] s = "purge" ->
           <<"p", "u", "r", "g", "e">>
      [] s = "ssh" ->
           <<"s", "s", "h">>
      [] s = "api" ->
           <<"a", "p", "i">>
      [] s = "status" ->
           <<"s", "t", "a", "t", "u", "s">>
      [] s = "current" ->
           <<"c", "u", "r", "r", "e", "n", "t">>
      [] s = "user" ->
           <<"u", "s", "e", "r">>
      [] s = "update" ->
           <<"u", "p", "d", "a", "t", "e">>
      [] s = "delete" ->
           <<"d", "e", "l", "e", "t", "e">>
      [] s = "users" ->
           <<"u", "s", "e", "r", "s">>
      [] s = "https://api.wpengineapi.com/v1" ->
           <<"h", "t", "t", "p", "s", ":", "/", "/", "a", "p", "i", ".", "w", "p",
             "e", "n", "g", "i", "n", "e", "a", "p", "i", ".", "c", "o", "m", "/",
             "v", "1">>
      [] s = "http://api.wpengineapi.com/v1" ->
           <<"h", "t", "t", "p", ":", "/", "/", "a", "p", "i", ".", "w", "p", "e",
             "n", "g", "i", "n", "e", "a", "p", "i", ".", "c", "o", "m", "/", "v",
             "1">>
      [] s = "https://" ->
           <<"h", "t", "t", "p", "s", ":", "/", "/">>
      [] s = "aaaaaaaaaaaaaaaaaaaaaaaaaaaaaaaaaaaaaaaaaaaaaaaaaa" -> Rep("a", 50)
      [] s = "aaaaaaaaaaaaaaaaaaaaaaaaaaaaaaaaaaaaaaaaaaaaaaaaaaa" -> Rep("a", 51)
      [] s = "My Other Blog" ->
           <<"M", "y", " ", "O", "t", "h", "e", "r", " ", "B", "l", "o", "g">>
      [] s = "AAAAAAAA-BBBB-CCCC-DDDD-EEEEEEEEEEEE" ->
           <<"A", "A", "A", "A", "A", "A", "A", "A", "-", "B", "B", "B", "B", "-", "C", "C", "C", "C", "-", "D", "D", "D", "D", "-", "E", "E", "E", "E", "E", "E", "E", "E", "E", "E", "E", "E">>
      [] s = "g1111111-1111-1111-1111-111111111111" ->
           <<"g", "1", "1", "1", "1", "1", "1", "1", "-", "1", "1", "1", "1", "-", "1", "1", "1", "1", "-", "1", "1", "1", "1", "-", "1", "1", "1", "1", "1", "1", "1", "1", "1", "1", "1", "1">>
      [] s = "1111111-1111-1111-1111-111111111111" ->
           <<"1", "1", "1", "1", "1", "1", "1", "-", "1", "1", "1", "1", "-", "1", "1", "1", "1", "-", "1", "1", "1", "1", "-", "1", "1", "1", "1", "1", "1", "1", "1", "1", "1", "1", "1">>
      [] s = "11111111-1111-1111-1111-1111111111111" ->
           <<"1", "1", "1", "1", "1", "1", "1", "1", "-", "1", "1", "1", "1", "-", "1", "1", "1", "1", "-", "1", "1", "1", "1", "-", "1", "1", "1", "1", "1", "1", "1", "1", "1", "1", "1", "1", "1">>
      [] s = "25" ->
           <<"2", "5">>
      [] s = "myblog1" ->
           <<"m", "y", "b", "l", "o", "g", "1">>
      [] s = "my-site" ->
           <<"m", "y", "-", "s", "i", "t", "e">>
      [] s = "production" ->
           <<"p", "r", "o", "d", "u", "c", "t", "i", "o", "n">>
      [] s = "staging" ->
           <<"s", "t", "a", "g", "i", "n", "g">>
      [] s = "development" ->
           <<"d", "e", "v", "e", "l", "o", "p", "m", "e", "n", "t">>
      [] s = "Production" ->
           <<"P", "r", "o", "d", "u", "c", "t", "i", "o", "n">>
      [] s = "PRODUCTION" ->
           <<"P", "R", "O", "D", "U", "C", "T", "I", "O", "N">>
      [] s = "prod" ->
           <<"p", "r", "o", "d">>
      [] s = "productions" ->
           <<"p", "r", "o", "d", "u", "c", "t", "i", "o", "n", "s">>
      [] s = "production " ->
           <<"p", "r", "o", "d", "u", "c", "t", "i", "o", "n", " ">>
      [] s = "object" ->
           <<"o", "b", "j", "e", "c", "t">>
      [] s = "page" ->
           <<"p", "a", "g", "e">>
      [] s = "cdn" ->
           <<"c", "d", "n">>
      [] s = "all" ->
           <<"a", "l", "l">>
      [] s = "ALL" ->
           <<"A", "L", "L">>
      [] s = "al" ->
           <<"a", "l">>
      [] s = "all-caches" ->
           <<"a", "l", "l", "-", "c", "a", "c", "h", "e", "s">>
      [] s = "owner" ->
           <<"o", "w", "n", "e", "r">>
      [] s = "full" ->
           <<"f", "u", "l", "l">>
      [] s = "full,billing" ->
           <<"f", "u", "l", "l", ",", "b", "i", "l", "l", "i", "n", "g">>
      [] s = "partial" ->
           <<"p", "a", "r", "t", "i", "a", "l">>
      [] s = "partial,billing" ->
           <<"p", "a", "r", "t", "i", "a", "l", ",", "b", "i", "l", "l", "i", "n", "g">>
      [] s = "billing" ->
           <<"b", "i", "l", "l", "i", "n", "g">>
      [] s = "Owner" ->
           <<"O", "w", "n", "e", "r">>
      [] s = "full, billing" ->
           <<"f", "u", "l", "l", ",", " ", "b", "i", "l", "l", "i", "n", "g">>
      [] s = "ownership" ->
           <<"o", "w", "n", "e", "r", "s", "h", "i", "p">>

\* Number.prototype.toString on a number kept in tenths.
NumText(tenths) ==
    IF tenths % 10 = 0
    THEN ToString(tenths \div 10)
    ELSE ToString(tenths \div 10) \o "." \o ToString(tenths % 10)

\* String(v) as a template literal renders a value.
Interpolate(val) ==
    CASE val.t = "string" -> val.v
      [] val.t = "number" -> NumText(val.v)
      [] val.t = "boolean" -> (IF val.v THEN "true" ELSE "false")
      [] val.t = "null" -> "null"
      [] val.t = "undefined" -> "undefined"
      [] OTHER -> "[object Object]"

\* ------------------------------------------------------ validation patterns

HexDigits ==
    {"0", "1", "2", "3", "4", "5", "6", "7", "8", "9",
     "a", "b", "c", "d", "e", "f", "A", "B", "C", "D", "E", "F"}

\* /^[0-9a-f]{8}-[0-9a-f]{4}-[0-9a-f]{4}-[0-9a-f]{4}-[0-9a-f]{12}$/i, tested
\* on the characters cs of a string.
uuidPattern(cs) ==
    /\ Len(cs) = 36
    /\ \A k \in 1..36 :
          IF k \in {9, 14, 19, 24} THEN cs[k] = "-" ELSE cs[k] \in HexDigits

LowerLetters ==
    {"a", "b", "c", "d", "e", "f", "g", "h", "i", "j", "k", "l", "m",
     "n", "o", "p", "q", "r", "s", "t", "u", "v", "w", "x", "y", "z"}
Digits == {"0", "1", "2", "3", "4", "5", "6", "7", "8", "9"}

\* /^[a-z][a-z0-9]{2,13}$/, tested on the characters cs of a string.
installNamePattern(cs) ==
    /\ Len(cs) >= 3
    /\ Len(cs) <= 14
    /\ cs[1] \in LowerLetters
    /\ \A k \in 2..Len(cs) : cs[k] \in LowerLetters \cup Digits

\* ------------------------------------------------------------- zod schemas

\* One check of a z.string() or z.number() chain, with the message of the
\* issue it raises (zod's default message unless the schema gives one).
StrRegex(p, m) == [k |-> "regex", pat |-> p, n |-> 0, msg |-> m]
StrMin(len) ==
    [k |-> "min", pat |-> "", n |-> len,
     msg |-> "String must contain at least " \o ToString(len) \o " character(s)"]
StrMax(len) ==
    [k |-> "max", pat |-> "", n |-> len,
     msg |-> "String must contain at most " \o ToString(len) \o " character(s)"]
NumInt == [k |-> "int", pat |-> "", n |-> 0, msg |-> "Expected integer, received float"]
NumMin(lo) ==
    [k |-> "min", pat |-> "", n |-> lo,
     msg |-> "Number must be greater than or equal to " \o ToString(lo)]
NumMax(hi) ==
    [k |-> "max", pat |-> "", n |-> hi,
     msg |-> "Number must be less than or equal to " \o ToString(hi)]

\* A key of z.object({...}): z.string()/z.number() with its checks,
\* z.enum(options) with its options in their place, or z.array(z.string())
\* with the checks of its elements; then .optional() and .default(d) when
\* the schema has them.
Required(nm, ty, cs) ==
    [name |-> nm, type |-> ty, checks |-> cs,
     optional |-> FALSE, hasDefault |-> FALSE, default |-> JUndef]
Optional(nm, ty, cs) ==
    [name |-> nm, type |-> ty, checks |-> cs,
     optional |-> TRUE, hasDefault |-> FALSE, default |-> JUndef]
\* A key declared .optional() without its .default(d).
Defaulted_none(nm, ty, cs, d) == Optional(nm, ty, cs)
Defaulted(nm, ty, cs, d) ==
    [name |-> nm, type |-> ty, checks |-> cs,
     optional |-> TRUE, hasDefault |-> TRUE, default |-> d]

MatchesPattern(p, cs) ==
    CASE p = "uuid" -> uuidPattern(cs)
      [] p = "installName" -> installNamePattern(cs)
      [] OTHER -> FALSE

\* Does a string of the characters cs pass the check c of z.string()?
StringPasses(c, cs) ==
    CASE c.k = "regex" -> MatchesPattern(c.pat, cs)
      [] c.k = "min" -> Len(cs) >= c.n
      [] c.k = "max" -> Len(cs) <= c.n
      [] OTHER -> TRUE

\* A z.number() whose range is not enforced.
Passes_noRange(ty, c, val) ==
    IF ty = "string"
    THEN StringPasses(c, Chars(val.v))
    ELSE c.k = "int" => val.v % 10 = 0

\* Does the value pass the check c of a schema of type ty?
Passes(ty, c, val) ==
    IF ty = "string"
    THEN StringPasses(c, Chars(val.v))
    ELSE CASE c.k = "int" -> val.v % 10 = 0
           [] c.k = "min" -> val.v >= c.n * 10
           [] c.k = "max" -> val.v <= c.n * 10
           [] OTHER -> TRUE

\* The messages of the checks that val fails, in the order of the chain:
\* zod runs every check, it does not stop at the first that fails.
RECURSIVE CheckIssues(_, _, _)
CheckIssues(ty, cs, val) ==
    IF cs = <<>> THEN <<>>
    ELSE (IF Passes(ty, Head(cs), val) THEN <<>> ELSE <<Head(cs).msg>>)
         \o CheckIssues(ty, Tail(cs), val)

\* An issue of one key: `at` is what its path adds to the key ("" for the
\* key itself, ".0" for the first element of an array).
Issue(a, m) == [at |-> a, message |-> m]
IssuesAt(a, msgs) == [j \in 1..Len(msgs) |-> Issue(a, msgs[j])]

\* A message that names the types even when the value is missing.
InvalidType_noRequired(expected, val) ==
    "Expected " \o expected \o ", received " \o val.t

\* zod's message for a value of the wrong type.
InvalidType(expected, val) ==
    IF val = JUndef THEN "Required"
    ELSE "Expected " \o expected \o ", received " \o val.t

\* util.joinValues of zod: 'a' | 'b' | 'c'
RECURSIVE JoinValues(_)
JoinValues(options) ==
    IF options = <<>> THEN ""
    ELSE IF Len(options) = 1 THEN "'" \o options[1] \o "'"
    ELSE "'" \o options[1] \o "' | " \o JoinValues(Tail(options))

\* z.enum(options) accepts a string that is one of the options.
StartsWith(c, o) == Len(c) >= Len(o) /\ SubSeq(c, 1, Len(o)) = o
EnumMember_startsWith(options, s) ==
    \E k \in 1..Len(options) : StartsWith(Chars(s), Chars(options[k]))

EnumMember(options, s) == \E k \in 1..Len(options) : options[k] = s

\* z.array(z.string()...) parses every element; the issue of element k has
\* the path <key>.<k>, counted from 0.
RECURSIVE ElementIssues(_, _, _)
ElementIssues(cs, elems, k) ==
    IF k > Len(elems) THEN <<>>
    ELSE LET a == "." \o ToString(k - 1) IN
         (IF elems[k].t # "string"
          THEN <<Issue(a, InvalidType("string", elems[k]))>>
          ELSE IssuesAt(a, CheckIssues("string", cs, elems[k])))
         \o ElementIssues(cs, elems, k + 1)

\* ZodDefault(ZodOptional(inner))._parse on one key's value: its issues and
\* the value it yields.  Nothing converts the value: a value of another type
\* is an issue, and a value that passes is yielded as it came.
ParseField(fs, raw) ==
    LET val == IF fs.hasDefault /\ raw = JUndef THEN fs.default ELSE raw IN
    IF fs.optional /\ val = JUndef
    THEN [issues |-> <<>>, value |-> JUndef]
    ELSE IF fs.type = "enum"
    THEN IF val.t # "string"
         THEN [issues |-> <<Issue("", InvalidType(JoinValues(fs.checks), val))>>,
               value |-> JUndef]
         ELSE IF ~EnumMember(fs.checks, val.v)
         THEN [issues |-> <<Issue("", "Invalid enum value. Expected "
                                       \o JoinValues(fs.checks)
                                       \o ", received '" \o val.v \o "'")>>,
               value |-> JUndef]
         ELSE [issues |-> <<>>, value |-> val]
    ELSE IF val.t # fs.type
    THEN [issues |-> <<Issue("", InvalidType(fs.type, val))>>, value |-> JUndef]
    ELSE IF fs.type = "array"
    THEN [issues |-> ElementIssues(fs.checks, val.v, 1), value |-> val]
    ELSE [issues |-> IssuesAt("", CheckIssues(fs.type, fs.checks, val)),
          value |-> val]

\* The issues of the keys of the schema from the k-th on, in the order of
\* the shape, each with its path joined by '.': every key is parsed, whether
\* or not an earlier one had an issue.
AtKey(nm, found) ==
    [j \in 1..Len(found) |->
       [path |-> nm \o found[j].at, message |-> found[j].message]]
\* A parse that stops at the first key that has an issue.
RECURSIVE FieldIssues_failFast(_, _, _)
FieldIssues_failFast(schema, obj, k) ==
    IF k > Len(schema) THEN <<>>
    ELSE IF ParseField(schema[k], Get(obj, schema[k].name)).issues # <<>>
    THEN AtKey(schema[k].name,
               ParseField(schema[k], Get(obj, schema[k].name)).issues)
    ELSE FieldIssues_failFast(schema, obj, k + 1)

RECURSIVE FieldIssues(_, _, _)
FieldIssues(schema, obj, k) ==
    IF k > Len(schema) THEN <<>>
    ELSE AtKey(schema[k].name,
               ParseField(schema[k], Get(obj, schema[k].name)).issues)
         \o FieldIssues(schema, obj, k + 1)

SchemaKeys(schema) == {schema[k].name : k \in 1..Len(schema)}
FieldSpec(schema, nm) == schema[CHOOSE k \in 1..Len(schema) : schema[k].name = nm]

\* z.object(shape).safeParse(input): keys the shape does not declare are
\* stripped, and a key whose parsed value is undefined is left out.
Defined(parsed) == [nm \in {x \in DOMAIN parsed : parsed[x] # JUndef} |-> parsed[nm]]
ParseResult(issues, parsed) ==
    IF issues # <<>>
    THEN [success |-> FALSE, issues |-> issues]
    ELSE [success |-> TRUE, data |-> Defined(parsed)]
\* z.object(shape).strict(): a key the shape does not declare is an issue.
safeParse_strict(schema, input) ==
    IF input.t # "object"
    THEN [success |-> FALSE,
          issues |-> <<[path |-> "", message |-> InvalidType("object", input)]>>]
    ELSE IF ~(DOMAIN input.v \subseteq SchemaKeys(schema))
    THEN [success |-> FALSE,
          issues |-> <<[path |-> "", message |-> "Unrecognized key(s) in object"]>>]
    ELSE ParseResult(FieldIssues(schema, input.v, 1),
                     [nm \in SchemaKeys(schema) |->
                        ParseField(FieldSpec(schema, nm), Get(input.v, nm)).value])
safeParse(schema, input) ==
    IF input.t # "object"
    THEN [success |-> FALSE,
          issues |-> <<[path |-> "", message |-> InvalidType("object", input)]>>]
    ELSE ParseResult(FieldIssues(schema, input.v, 1),
                     [nm \in SchemaKeys(schema) |->
                        ParseField(FieldSpec(schema, nm), Get(input.v, nm)).value])

\* Array.prototype.join(', ')
RECURSIVE Join(_)
Join(msgs) ==
    IF msgs = <<>> THEN ""
    ELSE IF Len(msgs) = 1 THEN msgs[1]
    ELSE msgs[1] \o ", " \o Join(Tail(msgs))

\* issues.map(issue => `${issue.path.join('.')}: ${issue.message}`)
IssueTexts(issues) ==
    [j \in 1..Len(issues) |-> issues[j].path \o ": " \o issues[j].message]

\* validateInput: the parsed data, or the Error it throws.
ThrowOrReturn(result) ==
    IF ~result.success
    THEN [ok |-> FALSE,
          error |-> "Invalid input: " \o Join(IssueTexts(result.issues))]
    ELSE [ok |-> TRUE, data |-> result.data]
validateInput(schema, input) == ThrowOrReturn(safeParse(schema, input))

UuidMsg(f) == "Invalid UUID format for " \o f
DefaultLimit == 25
DefaultOffset == 0
MinLimit == 1
MaxLimit == 100
MinOffset == 0
MinSiteName == 3
MaxSiteName == 50

listSitesSchema ==
    << Defaulted("limit", "number", <<NumInt, NumMin(MinLimit), NumMax(MaxLimit)>>,
                 JNum(DefaultLimit * 10)),
       Defaulted("offset", "number", <<NumInt, NumMin(MinOffset)>>,
                 JNum(DefaultOffset * 10)),
       Optional("account_id", "string", <<StrRegex("uuid", UuidMsg("account_id"))>>) >>

getSiteSchema ==
    << Required("site_id", "string", <<StrRegex("uuid", UuidMsg("site_id"))>>) >>

createSiteSchema ==
    << Required("name", "string", <<StrMin(MinSiteName), StrMax(MaxSiteName)>>),
       Required("account_id", "string", <<StrRegex("uuid", UuidMsg("account_id"))>>) >>

updateSiteSchema ==
    << Required("site_id", "string", <<StrRegex("uuid", UuidMsg("site_id"))>>),
       Optional("name", "string", <<StrMin(MinSiteName), StrMax(MaxSiteName)>>) >>

deleteSiteSchema ==
    << Required("site_id", "string", <<StrRegex("uuid", UuidMsg("site_id"))>>) >>

\* A site_id schema that asks only for a non-empty string.
getSiteInfoSchema_nonEmpty ==
    << Required("site_id", "string",
                <<[k |-> "min", pat |-> "", n |-> 1, msg |-> "Site ID is required"]>>) >>

getSiteInfoSchema == getSiteSchema

environmentTypes == <<"production", "staging", "development">>
cacheTypes == <<"object", "page", "cdn", "all">>
userRoles == <<"owner", "full", "full,billing", "partial", "partial,billing">>

InstallNameMsg ==
    "Install name must be 3-14 characters, lowercase letters and numbers, starting with letter"

listAccountsSchema ==
    << Defaulted("limit", "number", <<NumInt, NumMin(MinLimit), NumMax(MaxLimit)>>,
                 JNum(DefaultLimit * 10)),
       Defaulted("offset", "number", <<NumInt, NumMin(MinOffset)>>,
                 JNum(DefaultOffset * 10)) >>

createInstallSchema ==
    << Required("name", "string", <<StrRegex("installName", InstallNameMsg)>>),
       Required("account_id", "string", <<StrRegex("uuid", UuidMsg("account_id"))>>),
       Optional("site_id", "string", <<StrRegex("uuid", UuidMsg("site_id"))>>),
       Optional("environment", "enum", environmentTypes) >>

updateInstallSchema ==
    << Required("install_id", "string", <<StrRegex("uuid", UuidMsg("install_id"))>>),
       Optional("site_id", "string", <<StrRegex("uuid", UuidMsg("site_id"))>>),
       Optional("environment", "enum", environmentTypes) >>

purgeCacheSchema ==
    << Required("install_id", "string", <<StrRegex("uuid", UuidMsg("install_id"))>>),
       Required("type", "enum", cacheTypes) >>

updateAccountUserSchema ==
    << Required("account_id", "string", <<StrRegex("uuid", UuidMsg("account_id"))>>),
       Required("user_id", "string", <<StrRegex("uuid", UuidMsg("user_id"))>>),
       Required("roles", "enum", userRoles),
       Optional("install_ids", "array", <<StrRegex("uuid", UuidMsg("install_id"))>>) >>

\* The schemas by the names validation.ts exports them under.
SchemaNamed(e) ==
    CASE e = "listAccountsSchema" -> listAccountsSchema
      [] e = "listSitesSchema" -> listSitesSchema
      [] e = "getSiteSchema" -> getSiteSchema
      [] e = "createSiteSchema" -> createSiteSchema
      [] e = "updateSiteSchema" -> updateSiteSchema
      [] e = "deleteSiteSchema" -> deleteSiteSchema
      [] e = "createInstallSchema" -> createInstallSchema
      [] e = "updateInstallSchema" -> updateInstallSchema
      [] e = "purgeCacheSchema" -> purgeCacheSchema
      [] e = "updateAccountUserSchema" -> updateAccountUserSchema

\* The schemas validation.ts exports, each with the operation it is named
\* after; the legacy names at the end of the file are aliases of five of them.
Declared(e, v, r) == [export |-> e, verb |-> v, resource |-> r]
DeclaredSchemas ==
    { Declared("getApiStatusSchema", "get", "status"),
      Declared("getCurrentUserSchema", "get", "user"),
      Declared("listAccountsSchema", "list", "account"),
      Declared("getAccountSchema", "get", "account"),
      Declared("listSitesSchema", "list", "site"),
      Declared("getSiteSchema", "get", "site"),
      Declared("createSiteSchema", "create", "site"),
      Declared("updateSiteSchema", "update", "site"),
      Declared("deleteSiteSchema", "delete", "site"),
      Declared("listInstallsSchema", "list", "installation"),
      Declared("getInstallSchema", "get", "installation"),
      Declared("createInstallSchema", "create", "installation"),
      Declared("updateInstallSchema", "update", "installation"),
      Declared("deleteInstallSchema", "delete", "installation"),
      Declared("listDomainsSchema", "list", "domain"),
      Declared("getDomainSchema", "get", "domain"),
      Declared("createDomainSchema", "create", "domain"),
      Declared("updateDomainSchema", "update", "domain"),
      Declared("deleteDomainSchema", "delete", "domain"),
      Declared("createBackupSchema", "create", "backup"),
      Declared("getBackupSchema", "get", "backup"),
      Declared("purgeCacheSchema", "purge", "cache"),
      Declared("listAccountUsersSchema", "list", "account-user"),
      Declared("getAccountUserSchema", "get", "account-user"),
      Declared("createAccountUserSchema", "create", "account-user"),
      Declared("updateAccountUserSchema", "update", "account-user"),
      Declared("deleteAccountUserSchema", "delete", "account-user"),
      Declared("listSshKeysSchema", "list", "ssh-key"),
      Declared("createSshKeySchema", "create", "ssh-key"),
      Declared("deleteSshKeySchema", "delete", "ssh-key") }

LegacyAlias(e) ==
    CASE e = "getSiteInfoSchema" -> "getSiteSchema"
      [] e = "listSitesSchema_legacy" -> "listSitesSchema"
      [] e = "createSiteSchema_legacy" -> "createSiteSchema"
      [] e = "updateSiteSchema_legacy" -> "updateSiteSchema"
      [] e = "deleteSiteSchema_legacy" -> "deleteSiteSchema"
      [] OTHER -> e

\* ------------------------------------------------------------ REST client

\* What axios hands the response interceptors for one request: a 2xx
\* response with its body, or an AxiosError, with error.response (status and
\* body) when the server answered and without it on a transport error.
OkReply(st, body) == [ok |-> TRUE, hasResponse |-> TRUE, status |-> st, data |-> body,
                      message |-> ""]
HttpError(st, body) ==
    [ok |-> FALSE, hasResponse |-> TRUE, status |-> st, data |-> body,
     message |-> "Request failed with status code " \o ToString(st)]
TransportError(m) ==
    [ok |-> FALSE, hasResponse |-> FALSE, status |-> 0, data |-> JUndef, message |-> m]

\* JavaScript truthiness.
Truthy(val) ==
    CASE val.t = "undefined" -> FALSE
      [] val.t = "null" -> FALSE
      [] val.t = "string" -> val.v # ""
      [] val.t = "number" -> val.v # 0
      [] val.t = "boolean" -> val.v
      [] OTHER -> TRUE

\* apiError?.message, with apiError = error.response?.data.
ApiErrorMessage(error) ==
    IF error.hasResponse /\ error.data.t = "object"
    THEN Get(error.data.v, "message")
    ELSE JUndef

AuthenticationFailed ==
    "WP Engine API authentication failed. Please check your username and password from the API Access page."
AccessForbidden == "WP Engine API access forbidden. Please check your permissions."
NotFound == "WP Engine API endpoint not found or resource does not exist."
RateLimitExceeded == "WP Engine API rate limit exceeded. Please try again later."
ServerError == "WP Engine API server error. Please try again later."
GenericPrefix == "WP Engine API error: "

\* handleApiError without its 429 branch.
handleApiError_no429(error) ==
    IF error.hasResponse /\ error.status = 401 THEN AuthenticationFailed
    ELSE IF error.hasResponse /\ error.status = 403 THEN AccessForbidden
    ELSE IF error.hasResponse /\ error.status = 404 THEN NotFound
    ELSE IF error.hasResponse /\ error.status # 0 /\ error.status >= 500 THEN ServerError
    ELSE IF Truthy(ApiErrorMessage(error))
    THEN GenericPrefix \o Interpolate(ApiErrorMessage(error))
    ELSE GenericPrefix \o error.message

\* The message of the Error handleApiError makes of an AxiosError.
handleApiError(error) ==
    IF error.hasResponse /\ error.status = 401 THEN AuthenticationFailed
    ELSE IF error.hasResponse /\ error.status = 403 THEN AccessForbidden
    ELSE IF error.hasResponse /\ error.status = 404 THEN NotFound
    ELSE IF error.hasResponse /\ error.status = 429 THEN RateLimitExceeded
    ELSE IF error.hasResponse /\ error.status # 0 /\ error.status >= 500 THEN ServerError
    ELSE IF Truthy(ApiErrorMessage(error))
    THEN GenericPrefix \o Interpolate(ApiErrorMessage(error))
    ELSE GenericPrefix \o error.message

\* console.error('[WPEngine API] Response error:', error.response?.data || error.message)
ResponseErrorLog(error) ==
    [line |-> "[WPEngine API] Response error:",
     detail |-> IF error.hasResponse /\ Truthy(error.data)
                THEN "<response body>" ELSE error.message]

\* new URLSearchParams() after the append calls of listSites, as text.
ListParams(limit, offset, accountId) ==
    Join((IF limit # JUndef THEN <<"limit=" \o Interpolate(limit)>> ELSE <<>>)
         \o (IF offset # JUndef THEN <<"offset=" \o Interpolate(offset)>> ELSE <<>>)
         \o (IF Truthy(accountId) THEN <<"account_id=" \o Interpolate(accountId)>>
             ELSE <<>>))

\* The request each client method sends: the axios call, its URL, the
\* query parameters and the body, and the prefix of the Error the method
\* throws when the call fails.
HttpRequest(fn, verb, u, q, b, f) ==
    [method |-> fn, http |-> verb, url |-> u, query |-> q, body |-> b, failure |-> f]

listSites(limit, offset, accountId) ==
    HttpRequest("listSites", "GET", "/sites?" \o ListParams(limit, offset, accountId),
                [k \in {x \in {"limit", "offset", "account_id"} :
                          CASE x = "limit" -> limit # JUndef
                            [] x = "offset" -> offset # JUndef
                            [] OTHER -> Truthy(accountId)}
                   |-> CASE k = "limit" -> limit
                         [] k = "offset" -> offset
                         [] OTHER -> accountId],
                JUndef, "Failed to list sites: ")

getSite(siteId) ==
    HttpRequest("getSite", "GET", "/sites/" \o Interpolate(siteId), NoFields, JUndef,
                "Failed to get site info: ")

createSite(siteData) ==
    HttpRequest("createSite", "POST", "/sites", NoFields, siteData,
                "Failed to create site: ")

updateSite(siteId, updateData) ==
    HttpRequest("updateSite", "PATCH", "/sites/" \o Interpolate(siteId), NoFields,
                updateData, "Failed to update site: ")

deleteSite(siteId) ==
    HttpRequest("deleteSite", "DELETE", "/sites/" \o Interpolate(siteId), NoFields,
                JUndef, "Failed to delete site: ")

\* The other client methods, as the demo calls them: without limit and
\* offset.
getApiStatus ==
    HttpRequest("getApiStatus", "GET", "/status", NoFields, JUndef,
                "Failed to get API status: ")
getCurrentUser ==
    HttpRequest("getCurrentUser", "GET", "/user", NoFields, JUndef,
                "Failed to get current user: ")
listAccounts ==
    HttpRequest("listAccounts", "GET", "/accounts?", NoFields, JUndef,
                "Failed to list accounts: ")
getAccount(accountId) ==
    HttpRequest("getAccount", "GET", "/accounts/" \o Interpolate(accountId), NoFields,
                JUndef, "Failed to get account info: ")
listInstalls ==
    HttpRequest("listInstalls", "GET", "/installs?", NoFields, JUndef,
                "Failed to list installations: ")
getInstall(installId) ==
    HttpRequest("getInstall", "GET", "/installs/" \o Interpolate(installId), NoFields,
                JUndef, "Failed to get installation info: ")
listDomains(installId) ==
    HttpRequest("listDomains", "GET",
                "/installs/" \o Interpolate(installId) \o "/domains?", NoFields,
                JUndef, "Failed to list domains: ")
createBackup(installId, backupData) ==
    HttpRequest("createBackup", "POST",
                "/installs/" \o Interpolate(installId) \o "/backups", NoFields,
                backupData, "Failed to create backup: ")
purgeCache(installId, cacheData) ==
    HttpRequest("purgeCache", "POST",
                "/installs/" \o Interpolate(installId) \o "/purge_cache", NoFields,
                cacheData, "Failed to purge cache: ")
listAccountUsers(accountId) ==
    HttpRequest("listAccountUsers", "GET",
                "/accounts/" \o Interpolate(accountId) \o "/account_users", NoFields,
                JUndef, "Failed to list account users: ")
listSshKeys ==
    HttpRequest("listSshKeys", "GET", "/ssh_keys?", NoFields, JUndef,
                "Failed to list SSH keys: ")

\* The methods declared Promise<void>: they await the request and return
\* nothing.
VoidMethods == {"deleteSite", "purgeCache"}

\* console.error(`[WPEngine API] ${config.method?.toUpperCase()} ${config.url}`)
RequestLog(call) == [line |-> "[WPEngine API] " \o call.http, detail |-> call.url]

\* A client that takes the body for a wrapper and returns its data key.
ClientResult_unwrap(call, reply) ==
    IF reply.ok
    THEN [ok |-> TRUE,
          value |-> IF call.method \in VoidMethods \/ reply.data.t # "object"
                    THEN JUndef ELSE Get(reply.data.v, "data")]
    ELSE [ok |-> FALSE, error |-> call.failure \o handleApiError(reply)]

\* A client whose Error quotes the Authorization header of the request.
ClientResult_echoConfig(call, reply) ==
    IF reply.ok
    THEN [ok |-> TRUE,
          value |-> IF call.method \in VoidMethods THEN JUndef ELSE reply.data]
    ELSE [ok |-> FALSE,
          error |-> call.failure \o handleApiError(reply)
                    \o " (" \o call.authorization \o ")"]

\* What a client method gives its caller once axios has settled: the
\* response body (nothing for the void methods), or the Error of its catch block
\* around the Error the response interceptor rejected with.
ClientResult(call, reply) ==
    IF reply.ok
    THEN [ok |-> TRUE,
          value |-> IF call.method \in VoidMethods THEN JUndef ELSE reply.data]
    ELSE [ok |-> FALSE, error |-> call.failure \o handleApiError(reply)]

\* ------------------------------------------------------- discovery catalog

\* One entry of the tools list: its name and its inputSchema's property
\* names and required list.
Tool(nm, props, req) == [name |-> nm, properties |-> props, required |-> req]

\* The catalog with delete_site left out.
ToolCatalog_noDelete ==
    << Tool("list_sites", {}, {}),
       Tool("get_site_info", {"site_id"}, {"site_id"}),
       Tool("create_site", {"name", "environment", "php_version", "wp_version"},
            {"name"}),
       Tool("update_site",
            {"site_id", "name", "php_version", "wp_version", "backup_enabled",
             "cdn_enabled", "ssl_enabled"},
            {"site_id"}) >>

\* The answer of the ListToolsRequestSchema handler.
ToolCatalog ==
    << Tool("list_sites", {}, {}),
       Tool("get_site_info", {"site_id"}, {"site_id"}),
       Tool("create_site", {"name", "environment", "php_version", "wp_version"},
            {"name"}),
       Tool("update_site",
            {"site_id", "name", "php_version", "wp_version", "backup_enabled",
             "cdn_enabled", "ssl_enabled"},
            {"site_id"}),
       Tool("delete_site", {"site_id"}, {"site_id"}) >>

\* ------------------------------------------------------- tool-call handler

\* The handler's try block up to its await: the Error thrown before any
\* call is made, or the client call it awaits; with the validateInput calls
\* made on the way (the schema, and the Error thrown if any).
Throws(m, used) == [kind |-> "throw", error |-> m, schemas |-> used]
Awaits(c, used, data) ==
    [kind |-> "await", call |-> c, schemas |-> used, validatedInput |-> data]
Validation(nm, v) ==
    [schema |-> nm, ok |-> v.ok, error |-> IF v.ok THEN "" ELSE v.error]

\* The case labels of switch (request.params.name).
ToolNames == {"list_sites", "get_site_info", "create_site", "update_site", "delete_site"}

\* The schema each case gives validateInput, by the name it is imported as.
SchemaName(name) ==
    CASE name = "list_sites" -> "listSitesSchema"
      [] name = "get_site_info" -> "getSiteInfoSchema"
      [] name = "create_site" -> "createSiteSchema"
      [] name = "update_site" -> "updateSiteSchema"
      [] OTHER -> "deleteSiteSchema"

ToolSchema(name) ==
    CASE name = "list_sites" -> listSitesSchema
      [] name = "get_site_info" -> getSiteInfoSchema
      [] name = "create_site" -> createSiteSchema
      [] name = "update_site" -> updateSiteSchema
      [] OTHER -> deleteSiteSchema

\* The input each case gives validateInput: list_sites alone puts {} in the
\* place of missing arguments.
ToolInput(name, arguments) ==
    IF name = "list_sites" /\ ~Truthy(arguments) THEN JObj(NoFields) ELSE arguments

\* The client call each case awaits, made of its validatedInput.
ClientCall(name, validatedInput) ==
    CASE name = "list_sites" -> listSites(JUndef, JUndef, JUndef)
      [] name = "get_site_info" -> getSite(Get(validatedInput, "site_id"))
      [] name = "create_site" ->
           createSite([k \in {x \in {"name", "account_id"} :
                                Get(validatedInput, x) # JUndef}
                         |-> validatedInput[k]])
      [] name = "update_site" ->
           updateSite(Get(validatedInput, "site_id"),
                      Without(validatedInput, "site_id"))
      [] OTHER -> deleteSite(Get(validatedInput, "site_id"))

\* A case that makes its client call whatever validateInput answered.
CallAnyway(name, v, data) ==
    Awaits(ClientCall(name, data), <<Validation(SchemaName(name), v)>>, data)
AfterValidation_callAnyway(name, v) ==
    CallAnyway(name, v, IF v.ok THEN v.data ELSE NoFields)

\* One case of the switch up to its await: validateInput throws, or the
\* client call is made of what it returns.
AfterValidation(name, v) ==
    IF v.ok
    THEN Awaits(ClientCall(name, v.data), <<Validation(SchemaName(name), v)>>, v.data)
    ELSE Throws(v.error, <<Validation(SchemaName(name), v)>>)
ValidateThenCall(name, arguments) ==
    AfterValidation(name, validateInput(ToolSchema(name), ToolInput(name, arguments)))

\* A default label that falls through to the delete_site case.
UnknownTool_fallsThrough(name, arguments) == ValidateThenCall("delete_site", arguments)

\* default: throw new Error(`Unknown tool: ${request.params.name}`)
UnknownTool(name, arguments) == Throws("Unknown tool: " \o name, <<>>)

\* switch (request.params.name)
Dispatch(name, arguments) ==
    IF name \in ToolNames THEN ValidateThenCall(name, arguments)
    ELSE UnknownTool(name, arguments)

\* A tool result: one text block holding the envelope, and the isError
\* marker when the handler sets it.  JSON.stringify leaves out a key whose
\* value is undefined.
SuccessData(data) ==
    [content |-> IF data = JUndef THEN [success |-> TRUE]
                 ELSE [success |-> TRUE, data |-> data]]
\* A create or update envelope that leaves the site out.
SuccessMessageData_noData(m, data) == [content |-> [success |-> TRUE, message |-> m]]
SuccessMessageData(m, data) ==
    [content |-> IF data = JUndef THEN [success |-> TRUE, message |-> m]
                 ELSE [success |-> TRUE, message |-> m, data |-> data]]
SuccessMessage(m) == [content |-> [success |-> TRUE, message |-> m]]
\* A failure envelope that also carries data.
Failure_withData(m) ==
    [content |-> [success |-> FALSE, error |-> m, data |-> JNull], isError |-> TRUE]
\* A failure result without the isError marker.
Failure_noMarker(m) == [content |-> [success |-> FALSE, error |-> m]]
Failure(m) == [content |-> [success |-> FALSE, error |-> m], isError |-> TRUE]

Returns(r) == [kind |-> "return", response |-> r, log |-> <<>>]
Rethrows(m) == [kind |-> "throw", error |-> m, log |-> <<>>]

\* A catch block that returns the failure without logging it.
Catch_noLog(name, m) == [kind |-> "return", response |-> Failure(m), log |-> <<>>]

\* The catch block of the handler: the failure is logged, then returned.
Catch(name, m) ==
    [kind |-> "return", response |-> Failure(m),
     log |-> <<[line |-> "Tool execution error (" \o name \o "):", detail |-> m]>>]

\* `${site.name}` in the messages of create_site and update_site: reading
\* a property of null or undefined is a TypeError, a missing property reads
\* as undefined.
NameOf(site) ==
    IF site.t \in {"null", "undefined"}
    THEN [ok |-> FALSE,
          error |-> "Cannot read properties of " \o site.t \o " (reading 'name')"]
    ELSE [ok |-> TRUE,
          text |-> IF site.t = "object" THEN Interpolate(Get(site.v, "name"))
                   ELSE "undefined"]

\* The rest of a case once its client call has returned `value`.
Succeed(name, validatedInput, value) ==
    CASE name = "list_sites" -> Returns(SuccessData(value))
      [] name = "get_site_info" -> Returns(SuccessData(value))
      [] name = "create_site" ->
           IF NameOf(value).ok
           THEN Returns(SuccessMessageData(
                   "Site '" \o NameOf(value).text \o "' created successfully", value))
           ELSE Rethrows(NameOf(value).error)
      [] name = "update_site" ->
           IF NameOf(value).ok
           THEN Returns(SuccessMessageData(
                   "Site '" \o NameOf(value).text \o "' updated successfully", value))
           ELSE Rethrows(NameOf(value).error)
      [] OTHER ->
           Returns(SuccessMessage(
               "Site with ID '" \o Interpolate(Get(validatedInput, "site_id"))
               \o "' deleted successfully"))

\* A handler that makes the client call again when it has failed.
Resume_retry(name, validatedInput, result) ==
    IF ~result.ok THEN Awaits(ClientCall(name, validatedInput), <<>>, validatedInput)
    ELSE Succeed(name, validatedInput, result.value)

\* The rest of the try block, once the awaited client call has settled
\* with `result`: the Error of a failed call goes on to the catch block.
Resume(name, validatedInput, result) ==
    IF ~result.ok THEN Rethrows(result.error)
    ELSE Succeed(name, validatedInput, result.value)

\* A handler without its catch block.
TryCatch_noCatch(name, outcome) == outcome

\* try { ... } catch (error) { ... }: whatever the try block throws is
\* caught; what it returns is returned.
TryCatch(name, outcome) ==
    IF outcome.kind = "throw" THEN Catch(name, outcome.error) ELSE outcome

\* ----------------------------------------------------------------- startup

\* process.env.X: the variable's value, or undefined when it is not set.
Getenv(env, k) == Get(env, k)

\* a || b
Or(a, b) == IF Truthy(a) THEN a ELSE b

RequiredMsg ==
    "WPENGINE_USERNAME and WPENGINE_PASSWORD environment variables are required. Get these from your WP Engine Portal API Access page."
ClientRequiredMsg ==
    "WPENGINE_AUTH_TOKEN_ID and WPENGINE_AUTH_PASSWORD environment variables are required. Get these from your WP Engine Portal API Access page."

\* validateEnvironmentConfig: returns, or throws the Error of the first
\* check that fails.
validateEnvironmentConfig(env) ==
    IF ~Truthy(Getenv(env, "WPENGINE_USERNAME"))
       \/ ~Truthy(Getenv(env, "WPENGINE_PASSWORD"))
    THEN [ok |-> FALSE, error |-> RequiredMsg]
    ELSE IF Getenv(env, "WPENGINE_USERNAME").t # "string"
            \/ Getenv(env, "WPENGINE_USERNAME").v = ""
    THEN [ok |-> FALSE, error |-> "WPENGINE_USERNAME must be a non-empty string"]
    ELSE IF Getenv(env, "WPENGINE_PASSWORD").t # "string"
            \/ Getenv(env, "WPENGINE_PASSWORD").v = ""
    THEN [ok |-> FALSE, error |-> "WPENGINE_PASSWORD must be a non-empty string"]
    ELSE [ok |-> TRUE]

\* parseInt(s, 10) on the characters of s: the number its leading digits
\* write, NaN when it has none.
JNaN == [t |-> "nan"]
DigitsInOrder == <<"0", "1", "2", "3", "4", "5", "6", "7", "8", "9">>
DigitValue(c) == (CHOOSE k \in 1..10 : DigitsInOrder[k] = c) - 1
RECURSIVE LeadingDigits(_, _, _)
LeadingDigits(cs, k, acc) ==
    IF k > Len(cs) \/ cs[k] \notin Digits THEN acc
    ELSE LeadingDigits(cs, k + 1, acc * 10 + DigitValue(cs[k]))
ParseIntOf(cs) ==
    IF cs = <<>> \/ cs[1] \notin Digits THEN JNaN
    ELSE JNum(LeadingDigits(cs, 1, 0) * 10)
parseInt(s) == ParseIntOf(Chars(s))

DefaultBaseUrl == "https://api.wpengineapi.com/v1"
DefaultTimeout == "30000"

\* createWPEngineClient: the configuration of the client it constructs, or
\* the Error it throws.
createWPEngineClient(env) ==
    IF ~Truthy(Getenv(env, "WPENGINE_AUTH_TOKEN_ID"))
       \/ ~Truthy(Getenv(env, "WPENGINE_AUTH_PASSWORD"))
    THEN [ok |-> FALSE, error |-> ClientRequiredMsg]
    ELSE [ok |-> TRUE,
          config |->
             [username |-> Getenv(env, "WPENGINE_AUTH_TOKEN_ID").v,
              password |-> Getenv(env, "WPENGINE_AUTH_PASSWORD").v,
              baseUrl |-> Or(Getenv(env, "WPENGINE_API_BASE_URL"),
                             JStr(DefaultBaseUrl)).v,
              timeout |-> parseInt(Or(Getenv(env, "WPENGINE_REQUEST_TIMEOUT"),
                                      JStr(DefaultTimeout)).v)]]

\* Buffer.from(text).toString('base64') of the credential pairs in use.
Base64(text) ==
    CASE text = "alice:s3cret" -> "YWxpY2U6czNjcmV0"
      [] text = "alice:hunter2" -> "YWxpY2U6aHVudGVyMg=="
      [] text = "bob:s3cret" -> "Ym9iOnMzY3JldA=="
      [] text = "bob:hunter2" -> "Ym9iOmh1bnRlcjI="

\* The Authorization header the constructor gives the axios instance.
BasicAuth(config) == "Basic " \o Base64(config.username \o ":" \o config.password)

\* A request as the axios instance sends it: the instance's baseURL,
\* timeout and Authorization header are those of the client's configuration.
Configured(call, config) ==
    [method |-> call.method, http |-> call.http, url |-> call.url,
     query |-> call.query, body |-> call.body, failure |-> call.failure,
     baseURL |-> config.baseUrl, timeout |-> config.timeout,
     authorization |-> BasicAuth(config)]

\* validateConnection's request.
getUser == HttpRequest("validateConnection", "GET", "/user", NoFields, JUndef, "")

\* A line of console.error outside the tool handler.
Line(l, d) == [line |-> l, detail |-> d]

\* No client has been constructed.
NoConfig == [username |-> "", password |-> "", baseUrl |-> "", timeout |-> JNaN]

\* process: phase is "loading", "probing" (main awaits validateConnection),
\* "serving" or "exited"; created tells whether wpengineClient exists, config
\* is its configuration, probes what its probe was answered, log the lines
\* written outside the tool handler.

\* The process before the module's top level has run.
Loading(env) ==
    [phase |-> "loading", env |-> env, exitCode |-> 0, created |-> FALSE,
     config |-> NoConfig, probes |-> <<>>, log |-> <<>>]

\* The top of index.ts and main() up to its await: the process exits with
\* code 1 when validateEnvironmentConfig throws (logged, process.exit(1))
\* and when createWPEngineClient throws (an uncaught exception ends the
\* process with code 1); otherwise the client exists and the probe is sent.
Boot(env) ==
    IF ~validateEnvironmentConfig(env).ok
    THEN [phase |-> "exited", env |-> env, exitCode |-> 1, created |-> FALSE,
          config |-> NoConfig, probes |-> <<>>,
          log |-> <<Line("Environment configuration error:",
                         validateEnvironmentConfig(env).error)>>]
    ELSE IF ~createWPEngineClient(env).ok
    THEN [phase |-> "exited", env |-> env, exitCode |-> 1, created |-> FALSE,
          config |-> NoConfig, probes |-> <<>>,
          log |-> <<Line("Uncaught Error:", createWPEngineClient(env).error)>>]
    ELSE [phase |-> "probing", env |-> env, exitCode |-> 0, created |-> TRUE,
          config |-> createWPEngineClient(env).config, probes |-> <<>>,
          log |-> <<RequestLog(getUser)>>]

ConnectFailedMsg == "Failed to connect to WP Engine API. Please check your credentials."

\* A main() that connects the transport whatever the probe returned.
Probed_ignored(p, reply) ==
    [p EXCEPT !.phase = "serving", !.probes = Append(@, reply),
              !.log = @ \o <<Line("WP Engine MCP server running on stdio", "")>>]

\* The rest of main() once the probe's request has settled: the transport
\* is connected when validateConnection returned true, and the process
\* exits with code 1 when it returned false.
Probed(p, reply) ==
    IF reply.ok
    THEN [p EXCEPT !.phase = "serving", !.probes = Append(@, reply),
                   !.log = @ \o <<Line("[WPEngine API] Connection validated successfully", ""),
                                  Line("WP Engine MCP server running on stdio", "")>>]
    ELSE [p EXCEPT !.phase = "exited", !.exitCode = 1, !.probes = Append(@, reply),
                   !.log = @ \o <<ResponseErrorLog(reply),
                                  Line("[WPEngine API] Connection validation failed:",
                                       handleApiError(reply)),
                                  Line("Server startup error:", ConnectFailedMsg)>>]

\* ---------------------------------------------------- demo: command parser

UpperInOrder ==
    <<"A", "B", "C", "D", "E", "F", "G", "H", "I", "J", "K", "L", "M",
      "N", "O", "P", "Q", "R", "S", "T", "U", "V", "W", "X", "Y", "Z">>
LowerInOrder ==
    <<"a", "b", "c", "d", "e", "f", "g", "h", "i", "j", "k", "l", "m",
      "n", "o", "p", "q", "r", "s", "t", "u", "v", "w", "x", "y", "z">>
LowerChar(c) ==
    IF \E k \in 1..26 : UpperInOrder[k] = c
    THEN LowerInOrder[CHOOSE k \in 1..26 : UpperInOrder[k] = c]
    ELSE c

\* String.prototype.toLowerCase, on characters.
toLowerCase(cs) == [k \in 1..Len(cs) |-> LowerChar(cs[k])]

\* The string of the characters cs[from..to].
RECURSIVE Text(_, _, _)
Text(cs, from, to) == IF from > to THEN "" ELSE cs[from] \o Text(cs, from + 1, to)

\* The word w stands at position p of l.
MatchAt(l, p, w) == p + Len(w) - 1 <= Len(l) /\ SubSeq(l, p, p + Len(w) - 1) = w

\* String.prototype.includes
includes(l, w) == \E p \in 1..Len(l) : MatchAt(l, p, Chars(w))

\* x+ from position p for a character class x: the position after the
\* longest run of characters of the class; p itself when there is none.
RECURSIVE Run(_, _, _)
Run(l, p, class) ==
    IF p > Len(l) \/ l[p] \notin class THEN p ELSE Run(l, p + 1, class)

WhiteSpace == {" "}
\* [a-f0-9-] and [a-zA-Z0-9-_] under the i flag, on lower-cased characters.
IdClass == {"a", "b", "c", "d", "e", "f", "-"} \cup Digits
NameClass == LowerLetters \cup Digits \cup {"-", "_"}

NoMatch == [found |-> FALSE]
Capture(from, to) == [found |-> TRUE, from |-> from, to |-> to]

\* (class+) at position q.
ClassAt(l, q, class) ==
    IF Run(l, q, class) > q THEN Capture(q, Run(l, q, class) - 1) ELSE NoMatch

\* (?:word\s+)?(class+) at position q, the optional group taken when the
\* rest then matches and left out otherwise.
OptionalThenClass(l, q, word, class) ==
    IF /\ MatchAt(l, q, word)
       /\ Run(l, q + Len(word), WhiteSpace) > q + Len(word)
       /\ ClassAt(l, Run(l, q + Len(word), WhiteSpace), class).found
    THEN ClassAt(l, Run(l, q + Len(word), WhiteSpace), class)
    ELSE ClassAt(l, q, class)

\* \s+(?:word\s+)?(class+) at position p.
SpacesThenId(l, p, word, class) ==
    IF Run(l, p, WhiteSpace) > p
    THEN OptionalThenClass(l, Run(l, p, WhiteSpace), word, class)
    ELSE NoMatch

\* Each regular expression tried at position p of the lower-cased message.
SiteAt(l, p) ==
    IF MatchAt(l, p, Chars("site"))
    THEN SpacesThenId(l, p + 4, Chars("id"), IdClass) ELSE NoMatch
AccountAt(l, p) ==
    IF MatchAt(l, p, Chars("account"))
    THEN SpacesThenId(l, p + 7, Chars("id"), IdClass) ELSE NoMatch
InstallAt(l, p) ==
    IF ~MatchAt(l, p, Chars("install")) THEN NoMatch
    ELSE IF /\ MatchAt(l, p + 7, Chars("ation"))
            /\ SpacesThenId(l, p + 12, Chars("id"), IdClass).found
    THEN SpacesThenId(l, p + 12, Chars("id"), IdClass)
    ELSE SpacesThenId(l, p + 7, Chars("id"), IdClass)
CreateAt(l, p) ==
    IF /\ MatchAt(l, p, Chars("create"))
       /\ Run(l, p + 6, WhiteSpace) > p + 6
       /\ MatchAt(l, Run(l, p + 6, WhiteSpace), Chars("site"))
    THEN SpacesThenId(l, Run(l, p + 6, WhiteSpace) + 4, Chars("named"), NameClass)
    ELSE NoMatch
TypeAlternatives == <<"all", "object", "page", "cdn">>
TypeAt(l, p) ==
    IF /\ MatchAt(l, p, Chars("cache"))
       /\ Run(l, p + 5, WhiteSpace) > p + 5
       /\ \E k \in 1..4 : MatchAt(l, Run(l, p + 5, WhiteSpace), Chars(TypeAlternatives[k]))
    THEN Capture(Run(l, p + 5, WhiteSpace),
                 Run(l, p + 5, WhiteSpace) - 1
                 + Len(Chars(TypeAlternatives[
                      CHOOSE k \in 1..4 :
                         /\ MatchAt(l, Run(l, p + 5, WhiteSpace), Chars(TypeAlternatives[k]))
                         /\ \A j \in 1..(k - 1) :
                               ~MatchAt(l, Run(l, p + 5, WhiteSpace),
                                        Chars(TypeAlternatives[j]))])))
    ELSE NoMatch

PatternAt(pattern, l, p) ==
    CASE pattern = "site" -> SiteAt(l, p)
      [] pattern = "account" -> AccountAt(l, p)
      [] pattern = "install" -> InstallAt(l, p)
      [] pattern = "create" -> CreateAt(l, p)
      [] OTHER -> TypeAt(l, p)

\* String.prototype.match without the g flag: the match that starts
\* leftmost, null when there is none.
RECURSIVE MatchFrom(_, _, _)
MatchFrom(pattern, l, p) ==
    IF p > Len(l) THEN NoMatch
    ELSE IF PatternAt(pattern, l, p).found THEN PatternAt(pattern, l, p)
    ELSE MatchFrom(pattern, l, p + 1)
match(pattern, l) == MatchFrom(pattern, l, 1)

\* match[1]: the captured group, as the message writes it.
Group1(cs, m) == Text(cs, m.from, m.to)

\* The rules of parseUserMessage in source order: the command, the words
\* the lower-cased message must include (one of each group), the regular
\* expression that must match ("" when the rule has none) and the
\* parameter its capture becomes.
Rule(c, words, pattern, key) ==
    [command |-> c, keywords |-> words, pattern |-> pattern, key |-> key]
InfoOrDetails == {"info", "details"}
Rules ==
    << Rule("list_sites", {{"list"}, {"sites", "websites"}}, "", ""),
       Rule("get_site_info", {{"site"}, InfoOrDetails}, "site", "site_id"),
       Rule("list_accounts", {{"list"}, {"accounts"}}, "", ""),
       Rule("get_account", {{"account"}, InfoOrDetails}, "account", "account_id"),
       Rule("list_installs", {{"list"}, {"installs", "installations"}}, "", ""),
       Rule("get_install", {{"install", "installation"}, InfoOrDetails},
            "install", "install_id"),
       Rule("list_domains", {{"list"}, {"domains"}}, "install", "install_id"),
       Rule("create_backup", {{"create"}, {"backup"}}, "install", "install_id"),
       Rule("purge_cache", {{"purge"}, {"cache"}}, "install", "install_id"),
       Rule("list_ssh_keys", {{"list"}, {"ssh"}}, "", ""),
       Rule("get_api_status", {{"api"}, {"status"}}, "", ""),
       Rule("get_current_user", {{"current"}, {"user"}}, "", ""),
       Rule("create_site", {{"create"}, {"site"}}, "create", "name"),
       Rule("update_site", {{"update"}, {"site"}}, "site", "site_id"),
       Rule("delete_site", {{"delete"}, {"site"}}, "site", "site_id"),
       Rule("list_account_users", {{"list"}, {"users"}}, "account", "account_id") >>

Command(c, params) == [command |-> c, parameters |-> params]
Help == Command("help", NoFields)

\* The condition of a rule's if statement.
Keywords(rule, l) == \A group \in rule.keywords : \E w \in group : includes(l, w)

\* The parameters a rule returns with the capture m of its regular
\* expression.
Parameters(rule, cs, l, m) ==
    CASE rule.pattern = "" -> NoFields
      [] rule.command = "create_backup" ->
           Field("install_id", JStr(Group1(cs, m)))
           @@ Field("description", JStr("Backup created via chat interface"))
           @@ Field("notification_emails", JArr(<<JStr("admin@example.com")>>))
      [] rule.command = "purge_cache" ->
           Field("install_id", JStr(Group1(cs, m)))
           @@ Field("type",
                    JStr(IF match("type", l).found
                         THEN Group1(l, match("type", l)) ELSE "all"))
      [] OTHER -> Field(rule.key, JStr(Group1(cs, m)))

\* A parser that answers help when a rule's words are there and its
\* regular expression does not match.
RECURSIVE RuleFrom_noFallThrough(_, _, _)
RuleFrom_noFallThrough(cs, l, k) ==
    IF k > Len(Rules) THEN Help
    ELSE IF ~Keywords(Rules[k], l) THEN RuleFrom_noFallThrough(cs, l, k + 1)
    ELSE IF Rules[k].pattern = "" THEN Command(Rules[k].command, NoFields)
    ELSE IF match(Rules[k].pattern, l).found
    THEN Command(Rules[k].command,
                 Parameters(Rules[k], cs, l, match(Rules[k].pattern, l)))
    ELSE Help

\* The if statements from the k-th on: the first whose condition holds and
\* whose regular expression, if it has one, matches returns; help when
\* none does.
RECURSIVE RuleFrom(_, _, _)
RuleFrom(cs, l, k) ==
    IF k > Len(Rules) THEN Help
    ELSE IF ~Keywords(Rules[k], l) THEN RuleFrom(cs, l, k + 1)
    ELSE IF Rules[k].pattern = "" THEN Command(Rules[k].command, NoFields)
    ELSE IF match(Rules[k].pattern, l).found
    THEN Command(Rules[k].command,
                 Parameters(Rules[k], cs, l, match(Rules[k].pattern, l)))
    ELSE RuleFrom(cs, l, k + 1)

parseUserMessage(message) == RuleFrom(Chars(message), toLowerCase(Chars(message)), 1)

\* -------------------------------------------------- demo: route and chat UI

\* executeCommand's switch: the client method each command calls.
DemoCall(command, parameters) ==
    CASE command = "list_sites" -> listSites(JUndef, JUndef, JUndef)
      [] command = "get_site_info" -> getSite(Get(parameters, "site_id"))
      [] command = "create_site" ->
           createSite(JObj(Field("name", Get(parameters, "name"))
                           @@ Field("account_id",
                                    Or(Get(parameters, "account_id"), JStr("default")))))
      [] command = "update_site" ->
           updateSite(Get(parameters, "site_id"), JObj(Without(parameters, "site_id")))
      [] command = "delete_site" -> deleteSite(Get(parameters, "site_id"))
      [] command = "list_accounts" -> listAccounts
      [] command = "get_account" -> getAccount(Get(parameters, "account_id"))
      [] command = "list_installs" -> listInstalls
      [] command = "get_install" -> getInstall(Get(parameters, "install_id"))
      [] command = "list_domains" -> listDomains(Get(parameters, "install_id"))
      [] command = "create_backup" ->
           createBackup(Get(parameters, "install_id"),
                        JObj(Field("description",
                                   Or(Get(parameters, "description"),
                                      JStr("Backup created via chat interface")))
                             @@ Field("notification_emails",
                                      Or(Get(parameters, "notification_emails"),
                                         JArr(<<JStr("admin@example.com")>>)))))
      [] command = "purge_cache" ->
           purgeCache(Get(parameters, "install_id"),
                      JObj(Field("type", Or(Get(parameters, "type"), JStr("all")))))
      [] command = "list_ssh_keys" -> listSshKeys
      [] command = "get_api_status" -> getApiStatus
      [] command = "get_current_user" -> getCurrentUser
      [] OTHER -> listAccountUsers(Get(parameters, "account_id"))

\* JSON.stringify then JSON.parse of an object: a key whose value is
\* undefined is left out.
ThroughJson(f) == [k \in {x \in DOMAIN f : f[x] # JUndef} |-> f[k]]

\* What fetch gives the page: a response with a status and a JSON body, or
\* a rejection.
JsonResponse(st, body) ==
    [rejected |-> FALSE, ok |-> st \in 200..299, status |-> st,
     body |-> ThroughJson(body), message |-> ""]
Rejected(m) ==
    [rejected |-> TRUE, ok |-> FALSE, status |-> 0, body |-> NoFields, message |-> m]

HelpText == "Available WP Engine commands: ..."
HelpResponse ==
    JsonResponse(200, Field("type", JStr("help")) @@ Field("content", JStr(HelpText)))
SuccessResponse(parsed, result) ==
    JsonResponse(200, Field("type", JStr("success"))
                      @@ Field("command", JStr(parsed.command))
                      @@ Field("parameters", JObj(parsed.parameters))
                      @@ Field("data", result))
ErrorResponse(parsed, m) ==
    JsonResponse(200, Field("type", JStr("error"))
                      @@ Field("command", JStr(parsed.command))
                      @@ Field("parameters", JObj(parsed.parameters))
                      @@ Field("error", JStr(m)))
InternalError ==
    JsonResponse(500, Field("error", JStr("Internal server error")))

\* executeCommand's catch block around the client's Error.
ExecuteError(m) == "WP Engine API error: " \o m

\* The formatters of the page. Formatted(h) stands for the text under the
\* heading h; TypeError for the throw of a property read on null or
\* undefined.
Formatted(h) == [ok |-> TRUE, text |-> h]
TypeError(val, property) ==
    [ok |-> FALSE,
     error |-> "Cannot read properties of " \o val.t \o " (reading '"
               \o property \o "')"]
IsResultsPage(data) ==
    /\ Truthy(data) /\ data.t = "object"
    /\ Get(data.v, "results").t = "array"
ListOf(data, none, heading) ==
    IF IsResultsPage(data) THEN Formatted(heading) ELSE Formatted(none)
InfoOf(data, none, heading) ==
    IF Truthy(data) THEN Formatted(heading) ELSE Formatted(none)
Unguarded(data, property, heading) ==
    IF data.t \in {"null", "undefined"} THEN TypeError(data, property)
    ELSE Formatted(heading)

formatSuccessResponse(command, data) ==
    CASE command = "list_sites" -> ListOf(data, "No sites found", "Sites List")
      [] command = "get_site_info" ->
           InfoOf(data, "No site information available", "Site Information")
      [] command = "list_accounts" -> ListOf(data, "No accounts found", "Accounts List")
      [] command = "get_account" ->
           InfoOf(data, "No account information available", "Account Information")
      [] command = "list_installs" ->
           ListOf(data, "No installations found", "Installations List")
      [] command = "get_install" ->
           InfoOf(data, "No installation information available",
                  "Installation Information")
      [] command = "list_domains" -> ListOf(data, "No domains found", "Domains List")
      [] command = "create_backup" ->
           Unguarded(data, "id", "Backup Created Successfully")
      [] command = "purge_cache" ->
           Unguarded(data, "status", "Cache Purged Successfully")
      [] command = "list_ssh_keys" -> ListOf(data, "No SSH keys found", "SSH Keys List")
      [] command = "get_api_status" -> Unguarded(data, "status", "API Status")
      [] command = "get_current_user" ->
           Unguarded(data, "first_name", "Current User Information")
      [] OTHER -> Formatted("Command \"" \o command \o "\" executed successfully")

formatResponse(body) ==
    CASE Get(body, "type") = JStr("help") ->
           Formatted(Or(Get(body, "content"), JStr("No help content available")).v)
      [] Get(body, "type") = JStr("success") ->
           formatSuccessResponse(Get(body, "command").v, Get(body, "data"))
      [] Get(body, "type") = JStr("error") ->
           Formatted("Error executing command \"" \o Interpolate(Get(body, "command"))
                     \o "\": " \o Interpolate(Get(body, "error")))
      [] OTHER -> Formatted("Unknown response type")

\* A ChatMessage (its id and timestamp left out).
ChatMessage(user, text, error, data) ==
    [isUser |-> user, content |-> text, isError |-> error, data |-> data]
Welcome ==
    ChatMessage(FALSE, "Welcome to the WP Engine Chat Interface! ...", FALSE, JUndef)
BotMessage(body) ==
    ChatMessage(FALSE, formatResponse(body).text, FALSE,
                IF Get(body, "type") = JStr("success") THEN Get(body, "data") ELSE JUndef)
ErrorMessage(m) == ChatMessage(FALSE, "Error: " \o m, TRUE, JUndef)

\* handleSendMessage from the end of its await: the message it appends for
\* what fetch gave it.
ReplyTo(response) ==
    IF response.rejected THEN ErrorMessage(response.message)
    ELSE IF ~response.ok
    THEN ErrorMessage("HTTP error! status: " \o ToString(response.status))
    ELSE IF ~formatResponse(response.body).ok
    THEN ErrorMessage(formatResponse(response.body).error)
    ELSE BotMessage(response.body)

\* String.prototype.trim gives the empty string.
Blank(s) == \A k \in 1..Len(Chars(s)) : Chars(s)[k] \in WhiteSpace

\* ------------------------------------------------------------------ inputs

Uuid1 == "11111111-1111-1111-1111-111111111111"
NotAUuid == "not-a-uuid"
Abc123 == "abc123"
MyBlog == "my-blog"
Ab == "ab"
Php81 == "8.1"

Args1(k1, v1) == JObj(Field(k1, v1))
Args2(k1, v1, k2, v2) == JObj(Field(k1, v1) @@ Field(k2, v2))
Args3(k1, v1, k2, v2, k3, v3) == JObj(Field(k1, v1) @@ Field(k2, v2) @@ Field(k3, v3))

Invocation(nm, args) == [name |-> nm, arguments |-> args]

\* The tool invocations the clients send.
Requests ==
    { Invocation("list_sites",
                 Args3("limit", JNum(100), "offset", JNum(200),
                       "account_id", JStr(Uuid1))),
      Invocation("list_sites", Args1("limit", JNum(0))),
      Invocation("get_site_info", JUndef),
      Invocation("get_site_info", Args1("site_id", JStr(Uuid1))),
      Invocation("get_site_info", Args1("site_id", JStr(NotAUuid))),
      Invocation("create_site",
                 Args2("name", JStr(MyBlog), "account_id", JStr(Uuid1))),
      Invocation("create_site", Args1("name", JStr(MyBlog))),
      Invocation("update_site",
                 Args3("site_id", JStr(Uuid1), "name", JStr(MyBlog),
                       "php_version", JStr(Php81))),
      Invocation("delete_site", Args1("site_id", JStr(Uuid1))),
      Invocation("delete_site", Args1("site_id", JStr(Abc123))),
      Invocation("frobnicate_site", Args1("site_id", JStr(Uuid1))) }

S1Site == JObj(Field("id", JStr("s1")) @@ Field("name", JStr(MyBlog)))
Taken == JObj(Field("message", JStr("taken")))

\* What the backend, or the network on the way to it, answers a request.
Replies ==
    { OkReply(200, S1Site), OkReply(200, JNull),
      HttpError(401, JNull), HttpError(403, JNull), HttpError(404, JNull),
      HttpError(429, JNull), HttpError(503, Taken),
      HttpError(400, Taken), HttpError(418, JNull),
      TransportError("timeout of 30000ms exceeded") }

\* Every mapping that gives each key of `keys` one of its candidate values,
\* the key being absent where the candidate is undefined.
RECURSIVE Objects(_, _)
Objects(keys, cand) ==
    IF keys = <<>> THEN {NoFields}
    ELSE { IF val = JUndef THEN rest ELSE Field(Head(keys), val) @@ rest :
             val \in cand[Head(keys)], rest \in Objects(Tail(keys), cand) }

UpperUuid == "AAAAAAAA-BBBB-CCCC-DDDD-EEEEEEEEEEEE"
NonHexUuid == "g1111111-1111-1111-1111-111111111111"
ShortUuid == "1111111-1111-1111-1111-111111111111"
LongUuid == "11111111-1111-1111-1111-1111111111111"
Name50 == "aaaaaaaaaaaaaaaaaaaaaaaaaaaaaaaaaaaaaaaaaaaaaaaaaa"
Name51 == "aaaaaaaaaaaaaaaaaaaaaaaaaaaaaaaaaaaaaaaaaaaaaaaaaaa"

\* Candidate values of the keys of the schemas: values the schema accepts,
\* values on each side of every limit, values of another type, and
\* undefined for a key that is left out.
LimitValues ==
    {JUndef, JNum(250), JNum(10), JNum(1000), JNum(0), JNum(1010), JNum(5),
     JStr("25"), JNull}
OffsetValues == {JUndef, JNum(0), JNum(200), JNum(-10), JNum(15), JStr("25")}
UuidValues ==
    {JUndef, JStr(Uuid1), JStr(UpperUuid), JStr(NonHexUuid), JStr(ShortUuid),
     JStr(LongUuid), JStr(NotAUuid), JStr(""), JNum(250)}
IdValues == {JUndef, JStr(Uuid1), JStr(NotAUuid), JNum(250)}
SiteNameValues ==
    {JUndef, JStr(MyBlog), JStr(Abc123), JStr(Ab), JStr(Name50), JStr(Name51),
     JNum(250)}
InstallNameValues == {JUndef, JStr("myblog1"), JStr(MyBlog), JStr(Ab)}
EnvironmentValues ==
    {JUndef, JStr("production"), JStr("staging"), JStr("development"),
     JStr("Production"), JStr("PRODUCTION"), JStr("prod"), JStr("productions"),
     JStr("production "), JStr(""), JNum(250), JNull}
CacheTypeValues ==
    {JUndef, JStr("object"), JStr("page"), JStr("cdn"), JStr("all"),
     JStr("ALL"), JStr("al"), JStr("all-caches"), JBool(TRUE)}
RoleValues ==
    {JUndef, JStr("owner"), JStr("full"), JStr("full,billing"), JStr("partial"),
     JStr("partial,billing"), JStr("billing"), JStr("Owner"),
     JStr("full, billing"), JStr("ownership")}
InstallIdsValues ==
    {JUndef, JArr(<<>>), JArr(<<JStr(Uuid1)>>),
     JArr(<<JStr(Uuid1), JStr(NotAUuid)>>), JArr(<<JNum(250)>>), JStr(Uuid1)}
UndeclaredValues == {JUndef, JStr(Php81)}

\* The raw argument mappings given to each schema; php_version is a key no
\* schema declares.
RawObjects(e) ==
    CASE e = "listAccountsSchema" ->
           Objects(<<"limit", "offset", "php_version">>,
                   [limit |-> LimitValues, offset |-> OffsetValues,
                    php_version |-> UndeclaredValues])
      [] e = "listSitesSchema" ->
           Objects(<<"limit", "offset", "account_id", "php_version">>,
                   [limit |-> LimitValues, offset |-> OffsetValues,
                    account_id |-> IdValues, php_version |-> UndeclaredValues])
      [] e \in {"getSiteSchema", "deleteSiteSchema"} ->
           Objects(<<"site_id", "php_version">>,
                   [site_id |-> UuidValues, php_version |-> UndeclaredValues])
      [] e = "createSiteSchema" ->
           Objects(<<"name", "account_id", "environment", "php_version">>,
                   [name |-> SiteNameValues, account_id |-> IdValues,
                    environment |-> {JUndef, JStr("production")},
                    php_version |-> UndeclaredValues])
      [] e = "updateSiteSchema" ->
           Objects(<<"site_id", "name", "php_version">>,
                   [site_id |-> IdValues, name |-> SiteNameValues,
                    php_version |-> UndeclaredValues])
      [] e = "createInstallSchema" ->
           Objects(<<"name", "account_id", "site_id", "environment">>,
                   [name |-> InstallNameValues, account_id |-> IdValues,
                    site_id |-> IdValues, environment |-> EnvironmentValues])
      [] e = "updateInstallSchema" ->
           Objects(<<"install_id", "site_id", "environment", "php_version">>,
                   [install_id |-> IdValues, site_id |-> {JUndef, JStr(Uuid1)},
                    environment |-> EnvironmentValues,
                    php_version |-> UndeclaredValues])
      [] e = "purgeCacheSchema" ->
           Objects(<<"install_id", "type", "php_version">>,
                   [install_id |-> IdValues, type |-> CacheTypeValues,
                    php_version |-> UndeclaredValues])
      [] e = "updateAccountUserSchema" ->
           Objects(<<"account_id", "user_id", "roles", "install_ids">>,
                   [account_id |-> {JUndef, JStr(Uuid1), JStr(NotAUuid)},
                    user_id |-> {JUndef, JStr(Uuid1), JStr(NotAUuid)},
                    roles |-> RoleValues, install_ids |-> InstallIdsValues])

ValidatedSchemas ==
    {"listAccountsSchema", "listSitesSchema", "getSiteSchema", "createSiteSchema",
     "updateSiteSchema", "deleteSiteSchema", "createInstallSchema",
     "updateInstallSchema", "purgeCacheSchema", "updateAccountUserSchema"}

\* What validateInput is given: a schema and the raw arguments, which need
\* not be a mapping at all.
ValidatorInput(e, in) == [schema |-> e, input |-> in]
ValidatorInputs ==
    UNION { {ValidatorInput(e, JObj(o)) : o \in RawObjects(e)}
            \cup {ValidatorInput(e, in) : in \in {JUndef, JNull, JStr(Uuid1)}} :
            e \in ValidatedSchemas }

\* The invocations and the answers of a client that waits for each result
\* before it sends the next request.
OtherSite == JObj(Field("id", JStr("s1")) @@ Field("name", JStr("My Other Blog")))
NamelessSite == JObj(Field("id", JStr("s1")))
SitesPage ==
    JObj(Field("results", JArr(<<S1Site, OtherSite>>)) @@ Field("count", JNum(20)))
SerialRequests ==
    Requests
    \cup {Invocation("get_site_info", JObj(o)) : o \in RawObjects("getSiteSchema")}
    \cup {Invocation("create_site", JObj(o)) : o \in RawObjects("createSiteSchema")}
    \cup {Invocation("update_site", JObj(o)) : o \in RawObjects("updateSiteSchema")}
    \cup {Invocation("list_sites", JObj(o)) :
            o \in Objects(<<"limit", "offset">>,
                          [limit |-> LimitValues, offset |-> {JUndef, JNum(200)}])}
SerialReplies ==
    Replies
    \cup {OkReply(201, S1Site), OkReply(201, OtherSite), OkReply(201, NamelessSite),
          OkReply(200, SitesPage), OkReply(200, JObj(NoFields)),
          OkReply(204, JStr(""))}

\* Environments: each variable unset or set, the credentials under the
\* names either function reads, the base URL with and without TLS, the
\* timeout numeric and not.
HttpBaseUrl == "http://api.wpengineapi.com/v1"
EnvValues ==
    [WPENGINE_USERNAME |-> {JUndef, JStr(""), JStr("alice")},
     WPENGINE_PASSWORD |-> {JUndef, JStr("s3cret")},
     WPENGINE_AUTH_TOKEN_ID |-> {JUndef, JStr("alice"), JStr("bob")},
     WPENGINE_AUTH_PASSWORD |-> {JUndef, JStr("s3cret"), JStr("hunter2")},
     WPENGINE_API_BASE_URL |-> {JUndef, JStr(HttpBaseUrl)},
     WPENGINE_REQUEST_TIMEOUT |-> {JUndef, JStr("5000"), JStr("soon")}]
Environments ==
    Objects(<<"WPENGINE_USERNAME", "WPENGINE_PASSWORD", "WPENGINE_AUTH_TOKEN_ID",
              "WPENGINE_AUTH_PASSWORD", "WPENGINE_API_BASE_URL",
              "WPENGINE_REQUEST_TIMEOUT">>, EnvValues)

\* An environment with every credential set and the defaults otherwise.
UsualEnv ==
    Field("WPENGINE_USERNAME", JStr("alice")) @@ Field("WPENGINE_PASSWORD", JStr("s3cret"))
    @@ Field("WPENGINE_AUTH_TOKEN_ID", JStr("alice"))
    @@ Field("WPENGINE_AUTH_PASSWORD", JStr("s3cret"))

CurrentUser == JObj(Field("id", JStr(Uuid1)) @@ Field("email", JStr("alice@example.com")))

\* What the probe's request is answered.
ProbeReplies ==
    { OkReply(200, CurrentUser), HttpError(401, JNull), HttpError(503, Taken),
      TransportError("timeout of 30000ms exceeded") }

\* Messages in the forms the demo's help text and README give.
DocumentedMessages ==
    { "list sites",
      "list accounts",
      "list installs",
      "list ssh keys",
      "api status",
      "current user",
      "help",
      "get site info abc123",
      "get account info abc123",
      "get install info abc123",
      "get site info 11111111-1111-1111-1111-111111111111",
      "get account info 11111111-1111-1111-1111-111111111111",
      "get install info 11111111-1111-1111-1111-111111111111",
      "purge cache for installation abc123",
      "purge all cache for installation abc123",
      "purge object cache for installation abc123",
      "purge page cache for installation abc123",
      "purge cdn cache for installation abc123",
      "purge object cache for installation install-456",
      "create backup for installation abc123",
      "list domains for installation abc123",
      "list users for account abc123",
      "create site named my-blog",
      "update site abc123",
      "delete site abc123" }

\* Messages that put the identifier right after the keyword, and the cache
\* type right after the word cache.
IdAfterKeywordMessages ==
    { "get info for site abc123",
      "get details for account abc123",
      "get info for install abc123",
      "info for site id abc123",
      "show site abc123 details",
      "purge cache object for installation abc123",
      "Purge cache CDN for install ABC123",
      "purge cache page for installation id abc123" }

\* Messages that meet the words of several rules, or the words of a rule
\* without its identifier.
EdgeMessages ==
    { "list sites info",
      "list accounts for site abc123 info",
      "get site info",
      "list installs site info",
      "create site info",
      "site details",
      "get site details abc",
      "purge cache",
      "purge cache all",
      "delete site",
      "create site named",
      "list users",
      "list domains",
      "hello",
      "site info for site 12",
      "update site info abc123",
      "list websites" }

Messages == DocumentedMessages \cup IdAfterKeywordMessages \cup EdgeMessages

\* What the visitor of the page types: messages of every kind of answer,
\* and nothing but spaces.
Typed ==
    { "help", "list sites", "api status", "get site info abc123",
      "get info for site abc123", "delete site abc123",
      "create backup for installation abc123",
      "purge cache for installation abc123", "  " }

\* The environments the demo's server runs in.
DemoEnvs == {UsualEnv, NoFields}

\* What the backend answers the demo's client.
DemoReplies ==
    { OkReply(200, S1Site), OkReply(200, SitesPage), OkReply(200, JNull),
      HttpError(401, JNull),
      TransportError("timeout of 30000ms exceeded") }

\* What becomes of a fetch that does not get the route's answer: the
\* network fails, or what stands before the route answers for it.
LostFetches == {Rejected("Failed to fetch"), InternalError}

\* ------------------------------------------------------------------- state

VARIABLES
    pc,              \* per invocation: "idle", "awaiting" (the client call), "done"
    request,         \* per invocation: request.params
    validatedInput,  \* per invocation: the handler's validatedInput
    schemasUsed,     \* per invocation: the schemas given to validateInput
    backendCalls,    \* per invocation: the requests the client sent
    backendReplies,  \* per invocation: what those requests were answered
    responses,       \* per invocation: the tool results the handler returned
    thrown,          \* per invocation: the errors that left the handler
    log,             \* per invocation: its lines on console.error
    tools,           \* the last answer to a discovery request
    validation,      \* a call of validateInput: what it is given and yields
    process,         \* the Node process: its phase, environment, client, log
    chat             \* the demo: the page's state and its route's work

vars ==
    <<pc, request, validatedInput, schemasUsed, backendCalls, backendReplies,
      responses, thrown, log, tools, validation, process, chat>>

Inv == 1..MaxInv

NoRequest == Invocation("", JUndef)

\* No call of validateInput outside the handler.
NoValidation == [phase |-> "none"]

\* The server after construction: no invocation has arrived.
Listening ==
    /\ pc = [i \in Inv |-> "idle"]
    /\ request = [i \in Inv |-> NoRequest]
    /\ validatedInput = [i \in Inv |-> NoFields]
    /\ schemasUsed = [i \in Inv |-> <<>>]
    /\ backendCalls = [i \in Inv |-> <<>>]
    /\ backendReplies = [i \in Inv |-> <<>>]
    /\ responses = [i \in Inv |-> <<>>]
    /\ thrown = [i \in Inv |-> <<>>]
    /\ log = [i \in Inv |-> <<>>]
    /\ tools = <<>>

\* The process once main() has connected the transport.
Serving == Probed(Boot(UsualEnv), OkReply(200, CurrentUser))

\* The demo is not running.
NoResponse == Rejected("")
NoChat ==
    [env |-> NoFields, phase |-> "closed", messages |-> <<>>, inputMessage |-> "",
     isLoading |-> FALSE, fetches |-> <<>>, parsed |-> <<>>, clients |-> 0,
     calls |-> <<>>, response |-> NoResponse, settled |-> <<>>]

Init ==
    /\ Listening
    /\ validation = NoValidation
    /\ process = Serving
    /\ chat = NoChat

\* The handler of invocation i leaves its try/catch with outcome h, after
\* writing the lines `lines`: it returns a tool result, throws, or awaits a
\* client call (whose request interceptor logs the request).
Settle(i, h, lines) ==
    CASE h.kind = "return" ->
           /\ pc' = [pc EXCEPT ![i] = "done"]
           /\ responses' = [responses EXCEPT ![i] = Append(@, h.response)]
           /\ log' = [log EXCEPT ![i] = @ \o lines \o h.log]
           /\ UNCHANGED <<thrown, backendCalls>>
      [] h.kind = "throw" ->
           /\ pc' = [pc EXCEPT ![i] = "done"]
           /\ thrown' = [thrown EXCEPT ![i] = Append(@, h.error)]
           /\ log' = [log EXCEPT ![i] = @ \o lines]
           /\ UNCHANGED <<responses, backendCalls>>
      [] OTHER ->
           /\ pc' = [pc EXCEPT ![i] = "awaiting"]
           /\ backendCalls' = [backendCalls EXCEPT ![i] = Append(@, Configured(h.call, process.config))]
           /\ log' = [log EXCEPT ![i] = @ \o lines \o <<RequestLog(h.call)>>]
           /\ UNCHANGED <<responses, thrown>>

\* A discovery request is answered with the catalog.
ListTools ==
    /\ process.phase = "serving"
    /\ tools' = ToolCatalog
    /\ UNCHANGED <<pc, request, validatedInput, schemasUsed, backendCalls,
                   backendReplies, responses, thrown, log, validation, process, chat>>

\* A tool invocation arrives and its handler runs up to its await, or to
\* its end when it fails before calling the client.
CallTool(i, req) ==
    /\ process.phase = "serving"
    /\ pc[i] = "idle"
    /\ \A j \in Inv : j < i => pc[j] # "idle"
    /\ LET d == Dispatch(req.name, req.arguments) IN
       /\ request' = [request EXCEPT ![i] = req]
       /\ schemasUsed' = [schemasUsed EXCEPT ![i] = d.schemas]
       /\ validatedInput' =
             [validatedInput EXCEPT ![i] =
                IF d.kind = "await" THEN d.validatedInput ELSE @]
       /\ Settle(i, TryCatch(req.name, d), <<>>)
    /\ UNCHANGED <<backendReplies, tools, validation, process, chat>>

\* A handler that keeps the request of the first invocation for all.
BackendReply_firstRequest(i, reply) ==
    /\ pc[i] = "awaiting"
    /\ backendReplies' = [backendReplies EXCEPT ![i] = Append(@, reply)]
    /\ LET call == backendCalls[i][Len(backendCalls[i])]
           result == ClientResult(call, reply)
       IN Settle(i,
                 TryCatch(request[1].name,
                          Resume(request[1].name, validatedInput[1], result)),
                 IF reply.ok THEN <<>> ELSE <<ResponseErrorLog(reply)>>)
    /\ UNCHANGED <<request, validatedInput, schemasUsed, tools, validation, process, chat>>

\* The awaited client call of invocation i settles and the handler runs to
\* its end.
BackendReply(i, reply) ==
    /\ pc[i] = "awaiting"
    /\ backendReplies' = [backendReplies EXCEPT ![i] = Append(@, reply)]
    /\ LET call == backendCalls[i][Len(backendCalls[i])]
           result == ClientResult(call, reply)
       IN Settle(i,
                 TryCatch(request[i].name,
                          Resume(request[i].name, validatedInput[i], result)),
                 IF reply.ok THEN <<>> ELSE <<ResponseErrorLog(reply)>>)
    /\ UNCHANGED <<request, validatedInput, schemasUsed, tools, validation, process, chat>>

Next ==
    \/ ListTools
    \/ \E i \in Inv, req \in Requests : CallTool(i, req)
    \/ \E i \in Inv, reply \in Replies : BackendReply(i, reply)

Spec == Init /\ [][Next]_vars

\* axios settles every request: with the response, or with an error once
\* config.timeout has passed.
FairSpec == Spec /\ \A i \in Inv : WF_vars(\E reply \in Replies : BackendReply(i, reply))

\* One client that awaits each result before its next request, with the
\* full range of arguments and answers.
SerialNext ==
    \/ ListTools
    \/ \E req \in SerialRequests : CallTool(1, req)
    \/ \E reply \in SerialReplies : BackendReply(1, reply)

SerialSpec == Init /\ [][SerialNext]_vars

\* validateInput on its own: it is given a schema and raw arguments, and
\* yields the parsed data or throws.
ValidateInit ==
    /\ Listening
    /\ process = Serving
    /\ chat = NoChat
    /\ \E given \in ValidatorInputs :
          validation = [phase |-> "given", schema |-> given.schema,
                        input |-> given.input, issues |-> <<>>,
                        outcome |-> [ok |-> FALSE, error |-> ""]]

Validate ==
    /\ validation.phase = "given"
    /\ LET schema == SchemaNamed(validation.schema)
           result == safeParse(schema, validation.input)
       IN validation' =
             [validation EXCEPT
                !.phase = "validated",
                !.issues = IF result.success THEN <<>> ELSE result.issues,
                !.outcome = validateInput(schema, validation.input)]
    /\ UNCHANGED <<pc, request, validatedInput, schemasUsed, backendCalls,
                   backendReplies, responses, thrown, log, tools, process, chat>>

ValidateNext == Validate

ValidateSpec == ValidateInit /\ [][ValidateNext]_vars

\* The process from its start: index.ts runs in some environment, the probe
\* is answered, and the server, once connected, handles requests.
StartupInit ==
    /\ Listening
    /\ validation = NoValidation
    /\ \E env \in Environments : process = Loading(env)
    /\ chat = NoChat

\* Node loads index.ts: its top level runs, and main() up to its await.
Start ==
    /\ process.phase = "loading"
    /\ process' = Boot(process.env)
    /\ UNCHANGED <<pc, request, validatedInput, schemasUsed, backendCalls,
                   backendReplies, responses, thrown, log, tools, validation, chat>>

\* The probe's request settles and main() runs to its end.
ProbeReply(reply) ==
    /\ process.phase = "probing"
    /\ process' = Probed(process, reply)
    /\ UNCHANGED <<pc, request, validatedInput, schemasUsed, backendCalls,
                   backendReplies, responses, thrown, log, tools, validation, chat>>

StartupNext ==
    \/ Start
    \/ \E reply \in ProbeReplies : ProbeReply(reply)
    \/ ListTools
    \/ \E req \in Requests : CallTool(1, req)
    \/ \E reply \in Replies : BackendReply(1, reply)

StartupSpec == StartupInit /\ [][StartupNext]_vars

\* The demo: its page once mounted, and its route. chat.phase is "idle",
\* "sent" (a fetch is on its way), "backend" (the route awaits the client)
\* or "responded" (the fetch has settled and the page has yet to go on);
\* fetches are the messages posted, parsed what the route made of them,
\* clients the calls of createWPEngineClient, calls the client's requests,
\* settled what each fetch gave the page.
ChatInit ==
    /\ Listening
    /\ validation = NoValidation
    /\ process = Serving
    /\ \E env \in DemoEnvs :
          chat = [NoChat EXCEPT !.env = env, !.phase = "idle",
                                !.messages = <<Welcome>>]

Others ==
    <<pc, request, validatedInput, schemasUsed, backendCalls, backendReplies,
      responses, thrown, log, tools, validation, process>>

\* onChange of the input, which is disabled while isLoading.
Type(text) ==
    /\ chat.phase # "closed"
    /\ ~chat.isLoading
    /\ Len(chat.fetches) < MaxSends
    /\ chat' = [chat EXCEPT !.inputMessage = text]
    /\ UNCHANGED Others

\* handleSendMessage up to its await: nothing when the input is blank or a
\* request is in flight; else the user's message is appended, the input
\* cleared, isLoading set and the message posted.
Send ==
    /\ chat.phase # "closed"
    /\ ~(Blank(chat.inputMessage) \/ chat.isLoading)
    /\ chat' = [chat EXCEPT
                  !.messages = Append(@, ChatMessage(TRUE, chat.inputMessage, FALSE, JUndef)),
                  !.inputMessage = "",
                  !.isLoading = TRUE,
                  !.fetches = Append(@, chat.inputMessage),
                  !.phase = "sent"]
    /\ UNCHANGED Others

\* What POST does with the parsed command up to its await or its return:
\* help is answered at once; else executeCommand constructs the client,
\* whose Error makes an error response, and calls its method.
Routed(c, parsed, client) ==
    IF parsed.command = "help"
    THEN [c EXCEPT !.parsed = Append(@, parsed), !.response = HelpResponse,
                   !.phase = "responded"]
    ELSE IF ~client.ok
    THEN [c EXCEPT !.parsed = Append(@, parsed), !.clients = @ + 1,
                   !.response = ErrorResponse(parsed, client.error),
                   !.phase = "responded"]
    ELSE [c EXCEPT !.parsed = Append(@, parsed), !.clients = @ + 1,
                   !.calls = Append(@, Configured(DemoCall(parsed.command,
                                                           parsed.parameters),
                                                  client.config)),
                   !.phase = "backend"]

\* The route handles the posted message.
Post ==
    /\ chat.phase = "sent"
    /\ chat' = Routed(chat, parseUserMessage(chat.fetches[Len(chat.fetches)]),
                      createWPEngineClient(chat.env))
    /\ UNCHANGED Others

\* The rest of POST once the client's method has settled with `result`.
Executed(c, parsed, result) ==
    [c EXCEPT !.response =
                 IF result.ok THEN SuccessResponse(parsed, result.value)
                 ELSE ErrorResponse(parsed, ExecuteError(result.error)),
              !.phase = "responded"]

\* The backend answers the client's request and the route returns.
DemoReply(reply) ==
    /\ chat.phase = "backend"
    /\ chat' = Executed(chat, chat.parsed[Len(chat.parsed)],
                        ClientResult(chat.calls[Len(chat.calls)], reply))
    /\ UNCHANGED Others

\* The fetch settles without the route's answer.
Lose(outcome) ==
    /\ chat.phase = "sent"
    /\ chat' = [chat EXCEPT !.response = outcome, !.phase = "responded"]
    /\ UNCHANGED Others

\* handleSendMessage from its await on: the reply is appended and, in the
\* finally block, isLoading reset.
Receive ==
    /\ chat.phase = "responded"
    /\ chat' = [chat EXCEPT !.messages = Append(@, ReplyTo(chat.response)),
                            !.settled = Append(@, chat.response),
                            !.response = NoResponse,
                            !.isLoading = FALSE,
                            !.phase = "idle"]
    /\ UNCHANGED Others

ChatNext ==
    \/ \E text \in Typed : Type(text)
    \/ Send
    \/ Post
    \/ \E reply \in DemoReplies : DemoReply(reply)
    \/ \E outcome \in LostFetches : Lose(outcome)
    \/ Receive

ChatSpec == ChatInit /\ [][ChatNext]_vars

\* The route on its own: some message has been posted by the page, and
\* the route handles it.
RouteInit ==
    /\ Listening
    /\ validation = NoValidation
    /\ process = Serving
    /\ \E env \in DemoEnvs, m \in Messages :
          chat = [NoChat EXCEPT
                    !.env = env, !.phase = "sent", !.isLoading = TRUE,
                    !.messages = <<Welcome, ChatMessage(TRUE, m, FALSE, JUndef)>>,
                    !.fetches = <<m>>]

RouteNext ==
    \/ Post
    \/ \E reply \in DemoReplies : DemoReply(reply)

RouteSpec == RouteInit /\ [][RouteNext]_vars

\* ------------------------------------------------------------------ claims

Started(i) == pc[i] # "idle"
Done(i) == pc[i] = "done"
Answered(i) == Done(i) /\ Len(responses[i]) = 1
Envelope(i) == responses[i][1].content
ValidationFailed(i) == \E k \in 1..Len(schemasUsed[i]) : ~schemasUsed[i][k].ok
Replied(i) == backendReplies[i] # <<>>
Reply(i) == backendReplies[i][1]
BackendFailed(i) == Replied(i) /\ ~Reply(i).ok
HasKey(f, k) == k \in DOMAIN f

\* C1: when validateInput rejects the arguments of an invocation, the client
\* is not called in that invocation and the result returned is the failure
\* envelope made of the validation error.
C1_ValidationFailureStaysLocal ==
    \A i \in Inv : \A k \in 1..Len(schemasUsed[i]) :
        ~schemasUsed[i][k].ok =>
            /\ backendCalls[i] = <<>>
            /\ backendReplies[i] = <<>>
            /\ Done(i)
            /\ responses[i] = <<Failure(schemasUsed[i][k].error)>>

C1_Witness ==
    \E i \in Inv :
        /\ Done(i) /\ ValidationFailed(i)
        /\ request[i] = Invocation("get_site_info", Args1("site_id", JStr(NotAUuid)))

\* C2 as stated: in every envelope, success is true exactly when data is
\* present and error absent, and false exactly when error is present and
\* data absent, for all five tools.
C2_SuccessIffData ==
    \A i \in Inv : \A k \in 1..Len(responses[i]) :
        LET e == responses[i][k].content IN
        /\ e.success <=> (HasKey(e, "data") /\ ~HasKey(e, "error"))
        /\ ~e.success <=> (HasKey(e, "error") /\ ~HasKey(e, "data"))

\* C2, amended: success is true exactly when error is absent, and false
\* exactly when error is present and data absent; a successful envelope
\* carries data for every tool but delete_site, whose envelope carries a
\* message and no data.
C2_SuccessIffNoError ==
    \A i \in Inv : \A k \in 1..Len(responses[i]) :
        LET e == responses[i][k].content IN
        /\ e.success <=> ~HasKey(e, "error")
        /\ ~e.success <=> (HasKey(e, "error") /\ ~HasKey(e, "data"))
        /\ e.success =>
              IF request[i].name = "delete_site"
              THEN HasKey(e, "message") /\ ~HasKey(e, "data")
              ELSE HasKey(e, "data")

C2_Witness ==
    \E i \in Inv :
        /\ Answered(i) /\ request[i].name = "delete_site"
        /\ Envelope(i).success

\* C3: a result has the isError marker exactly when its envelope has success
\* false, and every failure path (validation failure, unknown tool, failed
\* backend call) ends in such a result.
C3_IsErrorOnEveryFailure ==
    \A i \in Inv :
        /\ \A k \in 1..Len(responses[i]) :
              LET r == responses[i][k] IN
              IF r.content.success THEN ~HasKey(r, "isError")
              ELSE HasKey(r, "isError") /\ r.isError = TRUE
        /\ (Started(i) /\ (ValidationFailed(i) \/ request[i].name \notin ToolNames
                           \/ BackendFailed(i)))
              => /\ Answered(i)
                 /\ ~Envelope(i).success
                 /\ HasKey(responses[i][1], "isError")

C3_Witness ==
    \E i, j \in Inv :
        /\ Answered(i) /\ ValidationFailed(i)
        /\ Answered(j) /\ BackendFailed(j) /\ ~Reply(j).hasResponse
        /\ HasKey(responses[i][1], "isError") /\ HasKey(responses[j][1], "isError")

\* C4: an invocation makes at most one client call; once the call is
\* answered the invocation is over, and a failed call has given exactly one
\* failure envelope.
C4_AtMostOneBackendCall ==
    \A i \in Inv :
        /\ Len(backendCalls[i]) <= 1
        /\ Len(backendReplies[i]) <= Len(backendCalls[i])
        /\ Replied(i) => Done(i)
        /\ BackendFailed(i) => Answered(i) /\ ~Envelope(i).success

C4_Witness ==
    \E i \in Inv :
        /\ Answered(i) /\ BackendFailed(i) /\ Reply(i).status = 503
        /\ Len(backendCalls[i]) = 1

\* C5: no error ever leaves the handler and no invocation is answered
\* twice, and every invocation that has arrived is eventually answered by
\* exactly one envelope.
C5_ExactlyOneEnvelope ==
    /\ [](\A i \in Inv : thrown[i] = <<>> /\ Len(responses[i]) <= 1)
    /\ \A i \in Inv : Started(i) ~> (Answered(i) /\ thrown[i] = <<>>)

C5_Witness ==
    \E i \in Inv :
        /\ Answered(i) /\ request[i].name = "create_site"
        /\ Replied(i) /\ Reply(i).ok /\ Reply(i).data = JNull
        /\ ~Envelope(i).success

\* C6: an invocation whose name is not in the catalog gets the unknown-tool
\* failure envelope, with no schema applied and no client call made.
C6_UnknownToolFailsAtOnce ==
    \A i \in Inv :
        (Started(i)
         /\ request[i].name \notin {ToolCatalog[k].name : k \in 1..Len(ToolCatalog)})
            => /\ schemasUsed[i] = <<>>
               /\ backendCalls[i] = <<>>
               /\ Done(i)
               /\ responses[i] = <<Failure("Unknown tool: " \o request[i].name)>>

C6_Witness ==
    \E i \in Inv :
        /\ Answered(i) /\ request[i].name = "frobnicate_site"
        /\ request[i].arguments # JUndef

\* C7: the envelope of a failed client call has success false and, after
\* the method's prefix, the message that goes with the status: 401, 403,
\* 404, 429, 5xx, and for anything else the generic message with the raw
\* message (of the response body if it has one, else of the transport).
C7_Raw(reply) ==
    IF /\ reply.hasResponse /\ reply.data.t = "object"
       /\ HasKey(reply.data.v, "message")
       /\ reply.data.v["message"].t = "string" /\ reply.data.v["message"].v # ""
    THEN reply.data.v["message"].v
    ELSE reply.message

C7_MessageOf(reply) ==
    CASE ~reply.hasResponse -> "WP Engine API error: " \o reply.message
      [] reply.hasResponse /\ reply.status = 401 -> AuthenticationFailed
      [] reply.hasResponse /\ reply.status = 403 -> AccessForbidden
      [] reply.hasResponse /\ reply.status = 404 -> NotFound
      [] reply.hasResponse /\ reply.status = 429 -> RateLimitExceeded
      [] reply.hasResponse /\ reply.status >= 500 -> ServerError
      [] OTHER -> "WP Engine API error: " \o C7_Raw(reply)

C7_ErrorMessageByStatus ==
    /\ Cardinality({AuthenticationFailed, AccessForbidden, NotFound,
                    RateLimitExceeded, ServerError}) = 5
    /\ \A i \in Inv :
          BackendFailed(i) =>
              /\ Answered(i)
              /\ Envelope(i) =
                    [success |-> FALSE,
                     error |-> backendCalls[i][1].failure \o C7_MessageOf(Reply(i))]

C7_Witness ==
    \E i, j \in Inv :
        /\ Answered(i) /\ BackendFailed(i) /\ Reply(i).status = 429
        /\ Answered(j) /\ BackendFailed(j) /\ Reply(j).status = 418

\* C8 as stated: for every tool of the discovery answer, the properties it
\* advertises and those it marks required are the keys, and the required
\* keys, of the schema that validates the tool's arguments.
RequiredKeys(schema) == {schema[k].name : k \in {x \in 1..Len(schema) : ~schema[x].optional}}

C8_CatalogEqualsSchemas ==
    \A k \in 1..Len(tools) :
        /\ tools[k].properties = SchemaKeys(ToolSchema(tools[k].name))
        /\ tools[k].required = RequiredKeys(ToolSchema(tools[k].name))

\* C9 as stated: the names discovery advertises, the names the dispatcher
\* accepts and the operations with a declared schema are one set, which has
\* list, get, create, update and delete for each resource kind and the
\* status and identity calls.
Advertised == {tools[k].name : k \in 1..Len(tools)}
SchemaOfTool(name) == LegacyAlias(SchemaName(name))
Accepted(i) == schemasUsed[i] # <<>>

C9_CatalogIsWholeRegistry ==
    tools # <<>> =>
        /\ \A i \in Inv : Started(i) => (Accepted(i) <=> request[i].name \in Advertised)
        /\ {SchemaOfTool(n) : n \in Advertised} = {d.export : d \in DeclaredSchemas}
        /\ \A r \in {"site", "account", "installation", "domain", "backup", "ssh-key",
                     "account-user"} :
              \A v \in {"list", "get", "create", "update", "delete"} :
                 \E d \in DeclaredSchemas :
                    /\ d.verb = v /\ d.resource = r
                    /\ d.export \in {SchemaOfTool(n) : n \in Advertised}
        /\ \A r \in {"status", "user"} :
              \E d \in DeclaredSchemas :
                 d.resource = r /\ d.export \in {SchemaOfTool(n) : n \in Advertised}

\* C9, amended: the names discovery advertises and the names the
\* dispatcher accepts are the same five, list_sites, get_site_info,
\* create_site, update_site and delete_site; each is validated by a declared
\* schema, that of the same verb on the site resource, and the schemas
\* declared for the other resource kinds belong to no advertised or
\* accepted operation.
C9_FiveSiteTools ==
    /\ tools # <<>> =>
          /\ Advertised = {"list_sites", "get_site_info", "create_site", "update_site",
                           "delete_site"}
          /\ \A i \in Inv :
                Started(i) => (Accepted(i) <=> request[i].name \in Advertised)
          /\ {SchemaOfTool(n) : n \in Advertised}
                = {d.export : d \in {x \in DeclaredSchemas : x.resource = "site"}}
    /\ \A i \in Inv : \A k \in 1..Len(schemasUsed[i]) :
          /\ schemasUsed[i][k].schema = SchemaName(request[i].name)
          /\ \E d \in DeclaredSchemas :
                /\ d.export = LegacyAlias(schemasUsed[i][k].schema)
                /\ d.resource = "site"

C9_Witness ==
    /\ tools # <<>>
    /\ \E i, j \in Inv :
          /\ Done(i) /\ request[i].name = "frobnicate_site" /\ ~Accepted(i)
          /\ Started(j) /\ request[j].name = "update_site" /\ Accepted(j)

\* C10 as stated: the client call carries every field of the validated
\* arguments and nothing else: the query of the list call is the validated
\* limit, offset and account_id, the body of create and update is the
\* validated arguments without the path identifier, and the path of get,
\* update and delete ends in the validated site_id.
C10_ValidatedFieldsForwarded ==
    \A i \in Inv : \A k \in 1..Len(backendCalls[i]) :
        LET c == backendCalls[i][k]
            v == validatedInput[i]
        IN CASE request[i].name = "list_sites" -> c.query = v /\ c.body = JUndef
             [] request[i].name = "create_site" -> c.body = v /\ c.query = NoFields
             [] request[i].name = "update_site" ->
                  /\ c.body = Without(v, "site_id") /\ c.query = NoFields
                  /\ c.url = "/sites/" \o v["site_id"].v
             [] OTHER ->
                  /\ c.body = JUndef /\ c.query = NoFields
                  /\ c.url = "/sites/" \o v["site_id"].v

\* The create_site invocations whose arguments hold a name of 3 to 50
\* characters and an account_id of UUID shape, whatever else they hold.
C11_ValidCreate(i) ==
    /\ request[i].name = "create_site"
    /\ request[i].arguments.t = "object"
    /\ Get(request[i].arguments.v, "name") \in {JStr(MyBlog), JStr(Abc123), JStr(Name50)}
    /\ Get(request[i].arguments.v, "account_id") \in {JStr(Uuid1)}

\* The one client call of such an invocation: POST /sites with the name and
\* the account_id of the arguments as its body, and nothing else.
C11_CreateCalledOnce(i) ==
    /\ Len(backendCalls[i]) = 1
    /\ backendCalls[i][1].method = "createSite"
    /\ backendCalls[i][1].http = "POST"
    /\ backendCalls[i][1].url = "/sites"
    /\ backendCalls[i][1].query = NoFields
    /\ backendCalls[i][1].body =
          [k \in {"name", "account_id"} |-> request[i].arguments.v[k]]

\* C11 as stated: a create_site invocation with a valid name and a valid
\* account_id calls the client's createSite once with exactly those two
\* fields, and when the call succeeds with the body R the envelope is
\* success true, the message "Site '<name>' created successfully" with the
\* name of the arguments, and R as data.
C11_MessageNamesTheArgument ==
    \A i \in Inv :
        (C11_ValidCreate(i) /\ Started(i)) =>
            /\ C11_CreateCalledOnce(i)
            /\ (Replied(i) /\ Reply(i).ok) =>
                  /\ Answered(i)
                  /\ Envelope(i) =
                        [success |-> TRUE,
                         message |-> "Site '" \o request[i].arguments.v["name"].v
                                     \o "' created successfully",
                         data |-> Reply(i).data]

\* The name the handler reads from the body R of the response: that of R's
\* name key, "undefined" when R has none.
C11_NameIn(R) ==
    IF R.t = "object" /\ HasKey(R.v, "name") /\ R.v["name"].t = "string"
    THEN R.v["name"].v
    ELSE "undefined"

\* C11, amended: a create_site invocation with a valid name and a valid
\* account_id calls the client's createSite once with exactly those two
\* fields; when the call succeeds with a body R other than null, the
\* envelope is success true, the message "Site '<name>' created
\* successfully" with the name R carries ("undefined" when R carries none),
\* and R as data; when R is null the envelope is the failure envelope of
\* the TypeError raised by reading R's name.
C11_MessageNamesTheResponse ==
    \A i \in Inv :
        (C11_ValidCreate(i) /\ Started(i)) =>
            /\ C11_CreateCalledOnce(i)
            /\ (Replied(i) /\ Reply(i).ok) =>
                  /\ Answered(i)
                  /\ Envelope(i) =
                        IF Reply(i).data = JNull
                        THEN [success |-> FALSE,
                              error |-> "Cannot read properties of null (reading 'name')"]
                        ELSE [success |-> TRUE,
                              message |-> "Site '" \o C11_NameIn(Reply(i).data)
                                          \o "' created successfully",
                              data |-> Reply(i).data]

C11_Witness ==
    \E i \in Inv :
        /\ C11_ValidCreate(i) /\ Answered(i)
        /\ HasKey(request[i].arguments.v, "php_version")
        /\ Replied(i) /\ Reply(i) = OkReply(201, OtherSite)
        /\ Envelope(i).success

\* The strings of UUID shape among those given as identifiers: 8-4-4-4-12
\* hexadecimal digits, in either case.
C12_UuidShaped == {Uuid1, UpperUuid}

\* C12: a get_site_info invocation whose site_id is a string that does not
\* have UUID shape fails validation with the one detail "site_id: Invalid
\* UUID format for site_id", and the client is never called.
C12_NonUuidSiteIdRejected ==
    \A i \in Inv :
        (/\ Started(i)
         /\ request[i].name = "get_site_info"
         /\ request[i].arguments.t = "object"
         /\ Get(request[i].arguments.v, "site_id").t = "string"
         /\ Get(request[i].arguments.v, "site_id").v \notin C12_UuidShaped)
            => /\ Done(i)
               /\ backendCalls[i] = <<>>
               /\ schemasUsed[i] =
                     <<Validation("getSiteInfoSchema",
                                  [ok |-> FALSE,
                                   error |-> "Invalid input: site_id: Invalid UUID format for site_id"])>>
               /\ responses[i] =
                     <<Failure("Invalid input: site_id: Invalid UUID format for site_id")>>

C12_Witness ==
    \E i \in Inv :
        /\ Answered(i) /\ request[i].name = "get_site_info"
        /\ request[i].arguments.t = "object"
        /\ Get(request[i].arguments.v, "site_id") = JStr(NonHexUuid)
        /\ ~Envelope(i).success

\* A call of validateInput that has returned or thrown.
Validated == validation.phase = "validated"

\* The required keys of the schema that a raw argument mapping lacks.
C13_Missing ==
    IF Validated /\ validation.input.t = "object"
    THEN RequiredKeys(SchemaNamed(validation.schema)) \ DOMAIN validation.input.v
    ELSE {}

\* C13 as stated: when the raw argument mapping lacks a required field of
\* the schema, validation fails and its detail list has an entry of that
\* field with the reason "required".
C13_MissingFieldRequiredLowerCase ==
    \A f \in C13_Missing :
        /\ ~validation.outcome.ok
        /\ \E k \in 1..Len(validation.issues) :
              validation.issues[k] = [path |-> f, message |-> "required"]

\* C13, amended: when the raw argument mapping lacks a required field of
\* the schema, validation fails and its detail list has an entry of that
\* field with the reason "Required", the first letter a capital.
C13_MissingFieldRequired ==
    \A f \in C13_Missing :
        /\ ~validation.outcome.ok
        /\ \E k \in 1..Len(validation.issues) :
              validation.issues[k] = [path |-> f, message |-> "Required"]

C13_Witness ==
    /\ Validated /\ validation.schema = "createSiteSchema"
    /\ C13_Missing = {"account_id"}
    /\ validation.outcome =
          [ok |-> FALSE, error |-> "Invalid input: account_id: Required"]

\* The keys of the schema whose value in the raw argument mapping violates
\* the schema, each judged on its own.
C14_Violated ==
    IF Validated /\ validation.input.t = "object"
    THEN {f \in SchemaKeys(SchemaNamed(validation.schema)) :
            ParseField(FieldSpec(SchemaNamed(validation.schema), f),
                       Get(validation.input.v, f)).issues # <<>>}
    ELSE {}

\* The key an entry of the detail list is about: the entry of an array's
\* element is about the array's key.
C14_PathsOf(f) == {f, f \o ".0", f \o ".1"}

\* C14: when several fields of one argument mapping violate the schema,
\* validation fails once, with an entry for every violated field (not only
\* the first) and for no other, in the order of the schema, and its message
\* is "Invalid input: " and the entries as "field: reason" joined by ", ".
C14_AllViolationsReported ==
    Cardinality(C14_Violated) >= 2 =>
        /\ ~validation.outcome.ok
        /\ \A f \in C14_Violated :
              \E k \in 1..Len(validation.issues) :
                  validation.issues[k].path \in C14_PathsOf(f)
        /\ \A k \in 1..Len(validation.issues) :
              \E f \in C14_Violated : validation.issues[k].path \in C14_PathsOf(f)
        /\ validation.outcome.error =
              "Invalid input: "
              \o Join([k \in 1..Len(validation.issues) |->
                         validation.issues[k].path \o ": "
                         \o validation.issues[k].message])
        /\ (/\ validation.schema = "createSiteSchema"
            /\ Get(validation.input.v, "name") = JStr(Ab)
            /\ Get(validation.input.v, "account_id") = JStr(NotAUuid))
              => validation.outcome.error =
                    "Invalid input: name: String must contain at least 3 character(s), account_id: Invalid UUID format for account_id"

C14_Witness ==
    /\ Validated /\ validation.schema = "createSiteSchema"
    /\ C14_Violated = {"name", "account_id"}
    /\ validation.input.v = [name |-> JStr(Ab), account_id |-> JStr(NotAUuid)]
    /\ Len(validation.issues) = 2

\* The raw argument mappings that hold every required key of the schema,
\* each with a value the schema accepts, and no optional key.
C15_RequiredOnly ==
    /\ Validated /\ validation.input.t = "object"
    /\ DOMAIN validation.input.v = RequiredKeys(SchemaNamed(validation.schema))
    /\ \A f \in DOMAIN validation.input.v :
          ParseField(FieldSpec(SchemaNamed(validation.schema), f),
                     validation.input.v[f]).issues = <<>>

\* The defaults the schemas declare: limit 25 and offset 0 of the two list
\* schemas; account_id, name, site_id, environment and install_ids have none.
C15_Defaults ==
    IF validation.schema \in {"listAccountsSchema", "listSitesSchema"}
    THEN [limit |-> JNum(250), offset |-> JNum(0)]
    ELSE NoFields

C16_Undeclared ==
    IF Validated /\ validation.input.t = "object"
    THEN DOMAIN validation.input.v \ SchemaKeys(SchemaNamed(validation.schema))
    ELSE {}
C16_DeclaredPart ==
    JObj([k \in DOMAIN validation.input.v \ C16_Undeclared |-> validation.input.v[k]])

\* C16: keys the schema does not declare change nothing: validation of a
\* mapping that has such keys yields what validation of the mapping without
\* them yields - it passes when that one passes, with the same validated
\* arguments, which hold none of the undeclared keys.
C16_UndeclaredKeysIgnored ==
    C16_Undeclared # {} =>
        /\ validation.outcome =
              validateInput(SchemaNamed(validation.schema), C16_DeclaredPart)
        /\ validation.outcome.ok =>
              DOMAIN validation.outcome.data \cap C16_Undeclared = {}

C16_Witness ==
    /\ Validated /\ validation.schema = "updateSiteSchema"
    /\ C16_Undeclared = {"php_version"}
    /\ validation.outcome =
          [ok |-> TRUE, data |-> [site_id |-> JStr(Uuid1), name |-> JStr(MyBlog)]]

\* The values of limit and of offset that are out of the schema's domain:
\* the string "25", 0, 101 and 0.5 for limit; -1 for offset.
C17_BadLimit == {JStr("25"), JNum(0), JNum(1010), JNum(5)}
C17_BadOffset == {JNum(-10)}

\* C17: validation never repairs a value.  A limit that is the string "25",
\* 0, 101 or not an integer, or an offset of -1, makes the whole validation
\* fail, whatever the other fields are; and whenever validation passes,
\* every declared field the raw mapping holds is in the validated arguments
\* with the very value it came with.
C17_NoCoercionNoClamping ==
    (Validated /\ validation.input.t = "object") =>
        /\ (/\ validation.schema \in {"listAccountsSchema", "listSitesSchema"}
            /\ \/ Get(validation.input.v, "limit") \in C17_BadLimit
               \/ Get(validation.input.v, "offset") \in C17_BadOffset)
              => ~validation.outcome.ok
        /\ validation.outcome.ok =>
              \A f \in DOMAIN validation.input.v \cap DOMAIN validation.outcome.data :
                  validation.outcome.data[f] = validation.input.v[f]

C17_Witness ==
    /\ Validated /\ validation.schema = "listSitesSchema"
    /\ validation.input = JObj([limit |-> JStr("25")])
    /\ validation.outcome =
          [ok |-> FALSE,
           error |-> "Invalid input: limit: Expected number, received string"]

\* The enumerated field of a schema, and the closed set of its values.
C18_EnumField ==
    CASE validation.schema \in {"createInstallSchema", "updateInstallSchema"} ->
           "environment"
      [] validation.schema = "purgeCacheSchema" -> "type"
      [] validation.schema = "updateAccountUserSchema" -> "roles"
      [] OTHER -> ""
C18_Members ==
    CASE C18_EnumField = "environment" -> {"production", "staging", "development"}
      [] C18_EnumField = "type" -> {"object", "page", "cdn", "all"}
      [] C18_EnumField = "roles" ->
           {"owner", "full", "full,billing", "partial", "partial,billing"}
      [] OTHER -> {}
C18_Given ==
    IF Validated /\ validation.input.t = "object" /\ C18_EnumField # ""
    THEN Get(validation.input.v, C18_EnumField)
    ELSE JUndef
C18_Rejected ==
    \E k \in 1..Len(validation.issues) : validation.issues[k].path = C18_EnumField

\* C18: an enumerated field (environment, cache type, user roles) that is
\* given passes if and only if its value is exactly one member of the
\* closed set: a member gets no entry in the detail list, and any other
\* string - another case, a prefix, a member with a suffix - gets one and
\* makes the validation fail.
C18_EnumIsExactAndClosed ==
    C18_Given # JUndef =>
        IF C18_Given \in {JStr(m) : m \in C18_Members}
        THEN /\ ~C18_Rejected
             /\ validation.outcome.ok => validation.outcome.data[C18_EnumField] = C18_Given
        ELSE C18_Rejected /\ ~validation.outcome.ok

C18_Witness ==
    /\ Validated /\ validation.schema = "purgeCacheSchema"
    /\ validation.input = JObj([install_id |-> JStr(Uuid1), type |-> JStr("ALL")])
    /\ validation.outcome =
          [ok |-> FALSE,
           error |-> "Invalid input: type: Invalid enum value. Expected 'object' | 'page' | 'cdn' | 'all', received 'ALL'"]

Set(env, k) == Truthy(Getenv(env, k))
Handled == Started(1) \/ tools # <<>>

MissingCredential(env) ==
    \/ ~Set(env, "WPENGINE_USERNAME") \/ ~Set(env, "WPENGINE_PASSWORD")
    \/ ~Set(env, "WPENGINE_AUTH_TOKEN_ID") \/ ~Set(env, "WPENGINE_AUTH_PASSWORD")
NonHttpsBaseUrl(env) ==
    /\ Set(env, "WPENGINE_API_BASE_URL")
    /\ ~StartsWith(Chars(Getenv(env, "WPENGINE_API_BASE_URL").v), Chars("https://"))

\* C21: a process started with a required credential missing or with a base
\* URL that is not HTTPS never serves: it does not reach the connected
\* state and handles no tool invocation and no discovery request.
C21_BadConfigurationNeverServes ==
    (MissingCredential(process.env) \/ NonHttpsBaseUrl(process.env))
        => (process.phase # "serving" /\ ~Handled)

\* C27: an environment that validateEnvironmentConfig accepts never makes
\* createWPEngineClient throw: once the top level has run with such an
\* environment the client exists.
C27_AcceptedEnvironmentConstructsClient ==
    (process.phase # "loading" /\ validateEnvironmentConfig(process.env).ok)
        => process.created

\* C28: the transport is connected, and requests are handled, only after
\* the probe returned true; a probe that fails for any reason leaves the
\* process exited with code 1 and nothing handled.
C28_ServesOnlyAfterProbe ==
    /\ (process.phase = "serving" \/ Handled)
          => (Len(process.probes) = 1 /\ process.probes[1].ok)
    /\ (process.probes # <<>> /\ ~process.probes[1].ok)
          => (process.phase = "exited" /\ process.exitCode = 1 /\ ~Handled)

C28_Witness ==
    /\ process.phase = "exited"
    /\ process.probes = <<TransportError("timeout of 30000ms exceeded")>>
    /\ process.exitCode = 1

\* ------------------------------------------------- claims on the handler, 2

FailureEnvelope(i) == Answered(i) /\ ~Envelope(i).success
ExecutionErrorLine(i) ==
    [line |-> "Tool execution error (" \o request[i].name \o "):",
     detail |-> Envelope(i).error]

\* C22: an invocation that returned a failure envelope, of whatever kind,
\* has written that failure to the log: the line naming the tool and
\* carrying the envelope's error is the last line of the invocation's log,
\* written by the catch block that then built the envelope.
C22_FailureLoggedBeforeEnvelope ==
    \A i \in Inv :
       FailureEnvelope(i)
          => (log[i] # <<>> /\ log[i][Len(log[i])] = ExecutionErrorLine(i))

C22_Witness ==
    /\ FailureEnvelope(1) /\ ValidationFailed(1) /\ ~Replied(1)
    /\ FailureEnvelope(2) /\ BackendFailed(2)
    /\ ~Reply(2).hasResponse
    /\ log[2][Len(log[2])] = ExecutionErrorLine(2)

\* What the handler of an invocation with dispatch d returns when its client
\* call, sent by a client of configuration `config`, is answered `replies`.
HandlerOutcome(name, d, replies, config) ==
    IF d.kind = "await"
    THEN TryCatch(name,
                  Resume(name, d.validatedInput,
                         ClientResult(Configured(d.call, config), replies[1])))
    ELSE TryCatch(name, d)
RunWith(i, config) ==
    HandlerOutcome(request[i].name,
                   Dispatch(request[i].name, request[i].arguments),
                   backendReplies[i], config).response

\* The client's configuration with the credentials of another run.
OtherCredentials(config) ==
    [config EXCEPT !.username = "alice", !.password = "s3cret"]

\* C23: the envelope an invocation returned is the one the same invocation
\* returns, on the same backend response, in a run that differs only in
\* the credentials the client was configured with.
C23_EnvelopeIndependentOfCredentials ==
    Answered(1) => responses[1][1] = RunWith(1, OtherCredentials(process.config))

C23_Witness ==
    /\ FailureEnvelope(1) /\ BackendFailed(1)
    /\ process.config.username = "bob" /\ process.config.password = "hunter2"
    /\ backendCalls[1][1].authorization = "Basic Ym9iOmh1bnRlcjI="

\* Everything the handler of invocation i holds.
Slot(i) ==
    <<pc[i], request[i], validatedInput[i], schemasUsed[i], backendCalls[i],
      backendReplies[i], responses[i], thrown[i], log[i]>>
C24_OwnInputsOnly ==
    \A i \in Inv : Answered(i) => responses[i] = <<RunWith(i, process.config)>>
C24_OneSlotPerStep ==
    /\ \A i, j \in Inv : (i # j /\ Slot(i)' # Slot(i)) => Slot(j)' = Slot(j)
    /\ process' = process

\* C24: with several invocations in flight, whatever the order in which
\* their backend responses arrive, the envelope of each is the one computed
\* from its own name, arguments and backend response; every step of a
\* handler changes the state of its own invocation only, and none changes
\* the client's configuration.
C24_InvocationsIsolated == []C24_OwnInputsOnly /\ [][C24_OneSlotPerStep]_vars

C24_Witness ==
    /\ pc[1] = "awaiting" /\ Answered(2) /\ Replied(2)
    /\ request[1].name # request[2].name
    /\ responses[2] = <<RunWith(2, process.config)>>

\* ------------------------------------------------------ claims on the demo

Posted == chat.fetches[1]
Parsed == chat.parsed[1]
Routed1 == Len(chat.parsed) = 1

\* The forms of the demo's help text, filled in.
PurgeForm(type, id) == "purge " \o type \o " cache for installation " \o id
PurgeAllForm(id) == "purge cache for installation " \o id
GetForm(what, id) == "get " \o what \o " info " \o id
DocumentedIds == {"abc123"}

PurgeCommand(id, type) ==
    Command("purge_cache", Field("install_id", JStr(id)) @@ Field("type", JStr(type)))

\* C25: "purge [type] cache for installation [install-id]" with type all,
\* object, page or cdn is parsed into purge_cache with that type, and
\* "purge cache for installation [install-id]" into purge_cache with type
\* all.
C25_PurgeTypeParsed ==
    \A id \in DocumentedIds :
       /\ (Routed1 /\ Posted = PurgeAllForm(id)) => Parsed = PurgeCommand(id, "all")
       /\ \A k \in 1..Len(TypeAlternatives) :
             (Routed1 /\ Posted = PurgeForm(TypeAlternatives[k], id))
                => Parsed = PurgeCommand(id, TypeAlternatives[k])

\* C26: "get site info [site-id]", "get account info [account-id]" and
\* "get install info [install-id]" are parsed into get_site_info,
\* get_account and get_install with the identifier as their parameter.
C26_GetInfoParsed ==
    \A id \in DocumentedIds :
       /\ (Routed1 /\ Posted = GetForm("site", id))
             => Parsed = Command("get_site_info", Field("site_id", JStr(id)))
       /\ (Routed1 /\ Posted = GetForm("account", id))
             => Parsed = Command("get_account", Field("account_id", JStr(id)))
       /\ (Routed1 /\ Posted = GetForm("install", id))
             => Parsed = Command("get_install", Field("install_id", JStr(id)))

\* Rule k applies to the lower-cased message l: its words are there and
\* its regular expression, if it has one, matches.
Applies(k, l) ==
    /\ Keywords(Rules[k], l)
    /\ Rules[k].pattern # "" => match(Rules[k].pattern, l).found
FirstApplying(l) ==
    IF \E k \in 1..Len(Rules) : Applies(k, l)
    THEN Rules[CHOOSE k \in 1..Len(Rules) :
                  Applies(k, l) /\ \A j \in 1..(k - 1) : ~Applies(j, l)].command
    ELSE "help"
FallsThrough(l) ==
    \E j, k \in 1..Len(Rules) :
       /\ j < k /\ Keywords(Rules[j], l) /\ ~Applies(j, l)
       /\ Applies(k, l) /\ \A i \in 1..(k - 1) : ~Applies(i, l)

\* C29: the route makes one command of every posted message, that of the
\* first rule in source order whose words and regular expression both
\* match, a rule whose words match and whose expression does not being
\* passed over; help when no rule matches; and help is answered without a
\* client being constructed or the backend called.
C29_FirstMatchingRule ==
    Routed1 =>
       /\ Parsed.command = FirstApplying(toLowerCase(Chars(Posted)))
       /\ Parsed.command = "help"
             => /\ Parsed = Help
                /\ chat.clients = 0 /\ chat.calls = <<>>
                /\ chat.phase = "responded" /\ chat.response = HelpResponse

C29_Witness ==
    /\ Routed1 /\ Posted = "create site info"
    /\ FallsThrough(toLowerCase(Chars(Posted)))
    /\ Parsed = Command("create_site", Field("name", JStr("info")))
    /\ chat.clients = 1

\* The reply to the k-th send.
ReplyAt(k) == chat.messages[2 * k + 1]

\* C30: sends are serialized, every accepted send has appended one user
\* message and, once settled, one reply after it (a bot message when the
\* response was OK, an error message otherwise), the earlier messages
\* staying as they were, and isLoading is true exactly while a request is
\* in flight.
C30_SendsSerialized ==
    /\ Len(chat.fetches) - Len(chat.settled) \in {0, 1}
    /\ chat.isLoading <=> Len(chat.fetches) > Len(chat.settled)
    /\ Len(chat.messages) = 1 + Len(chat.fetches) + Len(chat.settled)
    /\ chat.messages[1] = Welcome
    /\ \A k \in 1..Len(chat.fetches) :
          chat.messages[2 * k] = ChatMessage(TRUE, chat.fetches[k], FALSE, JUndef)
    /\ \A k \in 1..Len(chat.settled) :
          /\ ~ReplyAt(k).isUser
          /\ ReplyAt(k).isError <=> ~chat.settled[k].ok

===============================================================================
